---- MODULE Spec2Model ----
(***************************************************************************)
(* Record reconciliation and participant-count audit of the raffle         *)
(* scripts:                                                                *)
(*   scripts/export_reverify_list.py   (consider, entries_by_post)         *)
(*   scripts/stats_by_user.py          (add_entry, build_report)           *)
(*   scripts/verify_participant_counts.py (seen-set scan, stratum stats,   *)
(*                                         outlier / mismatch flags)       *)
(*                                                                         *)
(* Every script is a sequential batch run over a stream of observations    *)
(* (day_key, post_id, raffle) yielded by iter_raffles_from_file.  Each     *)
(* script starts from its own initial state of Spec.  The value helpers    *)
(* the scripts share (percentile, compute_stats, get_star, to_epoch_sec,   *)
(* get_participant_info, winner_present, score_entry) are pure functions;  *)
(* SpecHelpers applies them to inputs drawn from bounded sets.             *)
(* SpecSources runs the loops over the source files themselves             *)
(* (raffle_dash.summarize_files and the source loop of the three scripts)  *)
(* and SpecDaily runs generate_daily_post.compute_stats on a day bucket.   *)
(*                                                                         *)
(* Encoding.  Python None is the integer None below; the stratum key       *)
(* "unknown" is the integer Unknown.  Identifiers and day keys are small   *)
(* integers (their order is the order of the Python strings).  Fractional  *)
(* values are kept exactly as scaled integers: percentiles in hundredths,  *)
(* thresholds in ten-thousandths; iqr_mult and five_star_rel are given in  *)
(* hundredths.                                                             *)
(***************************************************************************)
EXTENDS Integers, Sequences, FiniteSets, TLC

VARIABLES
    pc,                 \* position of the running script
    args,               \* parsed command line (audit only)
    offered,            \* history: every observation yielded so far, in order
    entries_by_post,    \* export_reverify_list: post_id -> retained entry
    day_keys_by_post,   \* export_reverify_list: post_id -> day key of it
    entries_by_date,    \* stats_by_user: <<date, post_id>> -> retained entry
    entered_rows,       \* stats_by_user.build_report: rows of the report
    entries_total,      \* stats_by_user.build_report: "Total entries"
    seen,               \* verify_participant_counts: post ids already read
    records,            \* verify_participant_counts: the unified record list
    per_star_counts,    \* verify_participant_counts: stratum -> counts
    per_star_stats,     \* verify_participant_counts: stratum -> summary
    row_i,              \* verify_participant_counts: index of the flag loop
    mismatches,         \* verify_participant_counts: count/ids mismatches
    low_outliers,       \* verify_participant_counts: low-count outliers
    sample,             \* value helpers: the list of numbers given
    quantiles,          \* value helpers: pct -> percentile(sample, pct)
    summary,            \* value helpers: the summary computed of sample
    record,             \* value helpers: the raw JSON record given
    extracted,          \* value helpers: what the helpers returned for it
    files,              \* source loops: the parsed content of each source file
    run,                \* source loops: the locals of the loop over files
    bucket,             \* generate_daily_post: the day bucket given
    daily_stats         \* generate_daily_post: what compute_stats returned

vars == <<pc, args, offered, entries_by_post, day_keys_by_post,
          entries_by_date, entered_rows, entries_total, seen, records,
          per_star_counts, per_star_stats, row_i, mismatches, low_outliers,
          sample, quantiles, summary, record, extracted,
          files, run, bucket, daily_stats>>

batchVars  == <<files, run, bucket, daily_stats>>
helperVars == <<sample, quantiles, summary, record, extracted, batchVars>>
exportVars == <<entries_by_post, day_keys_by_post>>
userVars   == <<entries_by_date, entered_rows, entries_total>>
auditVars  == <<seen, records, per_star_counts, per_star_stats, row_i,
                mismatches, low_outliers>>

----------------------------------------------------------------------------
(* Bounds and encodings *)

MaxObs == 3             \* observations yielded by the sources in one run

None == -1000           \* Python None
Unknown == 99           \* the stratum key "unknown"
Now == 2                \* now_sec = int(time.time())
ResolvedId == 1         \* stats_by_user: the resolved user id

Posts == {1, 2, 3}      \* post ids
Days  == {1, 2}         \* day keys

Range(s) == {s[i] : i \in 1..Len(s)}

Max(S) == CHOOSE x \in S : \A y \in S : y <= x

MinOf(a, b) == IF a <= b THEN a ELSE b

----------------------------------------------------------------------------
(* Raffle objects.                                                         *)
(*   isDict        the bucket value is a JSON object                       *)
(*   winner        "nested": winner object with a name or id,              *)
(*                 "top": winnerId / winnerName at top level only,         *)
(*                 "none": no winner anywhere                              *)
(*   pcount        raffle.participantCount coerced by int(), or None       *)
(*   hasIds, ids   raffle.participantIds is a list, and the list           *)
(*   stars         raffle.stickerStars coerced by int(), or None           *)
(*   hasName       raffle.stickerName is not None                          *)
(*   endTime       raffle.endTime in epoch seconds, or None                *)

Raffle(w, c, h, l, s, n, e) ==
    [isDict |-> TRUE, winner |-> w, pcount |-> c, hasIds |-> h, ids |-> l,
     stars |-> s, hasName |-> n, endTime |-> e]

NotADict ==
    [isDict |-> FALSE, winner |-> "none", pcount |-> None, hasIds |-> FALSE,
     ids |-> <<>>, stars |-> None, hasName |-> FALSE, endTime |-> None]

Empty == Raffle("none", None, FALSE, <<>>, None, FALSE, None)

\* settled, ended 5-star raffles with an explicit count
Full20 == Raffle("nested", 20, FALSE, <<>>, 5, TRUE, 1)
One == Raffle("nested", 1, TRUE, <<1>>, 5, FALSE, 1)
\* explicit count 6 with two participant ids (5 stars), 8 with five (3 stars)
Mis6 == Raffle("nested", 6, TRUE, <<1, 2>>, 5, TRUE, 1)
Mis8 == Raffle("nested", 8, TRUE, <<1, 2, 3, 4, 5>>, 3, TRUE, 1)
\* ended but no winner yet; the count is only derivable from the id list
Open == Raffle("none", None, TRUE, <<1, 2>>, 5, TRUE, 1)
\* settled, no participant signal at all
NoCount == Raffle("nested", None, FALSE, <<>>, 5, FALSE, 1)
\* settled, end time still in the future
Active == Raffle("nested", 1, FALSE, <<>>, 5, TRUE, 3)
\* winner stored at top level, no star rating, explicit count 0
TopZero == Raffle("top", 0, FALSE, <<>>, None, FALSE, 1)

ExportRaffles == {Full20, Mis6, One, Open, TopZero, Empty, NotADict}
UserRaffles   == {Full20, Mis6, One, Mis8, Open, NotADict}
AuditRaffles  == {Full20, Mis6, One, Mis8, Open, NoCount, Active, TopZero}

Obs(day, post, raffle) == [dayKey |-> day, postId |-> post, raffle |-> raffle]

\* Post ids are opaque: a post id not read before is the next unused one.
PostsOf(obs) == {obs[i].postId : i \in 1..Len(obs)}
NextPosts(obs) ==
    PostsOf(obs) \cup
        {p \in Posts : p \notin PostsOf(obs)
                        /\ \A q \in Posts : q < p => q \in PostsOf(obs)}

\* iter_raffles_from_file: bucket values that are not objects are skipped
Yielded(obs) == SelectSeq(obs, LAMBDA o : o.raffle.isDict)

----------------------------------------------------------------------------
(* Completeness score *)

score_entry(entry) ==
    << IF entry.winner = "nested" THEN 1 ELSE 0,
       IF entry.pcount # None \/ entry.hasIds THEN 1 ELSE 0,
       IF entry.stars # None THEN 1 ELSE 0,
       IF entry.hasName THEN 1 ELSE 0 >>

\* Python tuple comparison s > t on 4-tuples
TupleGT(s, t) ==
    \E i \in 1..4 : s[i] > t[i] /\ \A j \in 1..(i - 1) : s[j] = t[j]

Put(map, k, v) == [x \in DOMAIN map \cup {k} |-> IF x = k THEN v ELSE map[x]]

\* any enumeration of a finite set
RECURSIVE SetToSeq(_)
SetToSeq(S) ==
    IF S = {} THEN <<>>
    ELSE LET x == CHOOSE y \in S : TRUE IN <<x>> \o SetToSeq(S \ {x})

----------------------------------------------------------------------------
(* Value helpers (the same code in every script) *)

\* get_star: the coerced star rating, None when absent or not coercible
get_star(raffle) == raffle.stars

\* get_end_time / to_epoch_sec: epoch seconds, None when absent
get_end_time(raffle) == raffle.endTime

\* get_participant_info: <<count, ids_len>>
get_participant_info(raffle) ==
    LET ids_len == IF raffle.hasIds THEN Len(raffle.ids) ELSE None
        count == IF raffle.pcount = None /\ ids_len # None
                 THEN ids_len ELSE raffle.pcount
    IN <<count, ids_len>>

\* winner_present: get_winner reads the winner object when there is one and
\* the top-level winnerId / winnerName otherwise
winner_present(raffle) == raffle.winner \in {"nested", "top"}

----------------------------------------------------------------------------
(* export_reverify_list.py *)

\* variant: every offer replaces the retained entry
ConsiderLastWins(map, post_id, entry) == TRUE

\* variant: >= instead of >, an equal score replaces too
ConsiderTiesReplace(map, post_id, entry) ==
    \/ post_id \notin DOMAIN map
    \/ ~TupleGT(score_entry(map[post_id]), score_entry(entry))

\* variant: a first observation without any scored field is not kept
ConsiderDropsUnscored(map, post_id, entry) ==
    \/ post_id \notin DOMAIN map /\ score_entry(entry) # <<0, 0, 0, 0>>
    \/ post_id \in DOMAIN map
        /\ TupleGT(score_entry(entry), score_entry(map[post_id]))

\* the condition of consider(): existing is None or the new score is greater
ConsiderReplaces(map, post_id, entry) ==
    \/ post_id \notin DOMAIN map
    \/ TupleGT(score_entry(entry), score_entry(map[post_id]))

\* argparse defaults of verify_participant_counts.py; star_all is --stars all
DefaultArgs ==
    [star_all |-> FALSE, star_filter |-> {5}, min_count |-> 5,
     iqr_mult |-> 150, five_star_rel |-> 25]

\* every collection is empty before the first source is read
Blank ==
    /\ offered = <<>>
    /\ entries_by_post = <<>>
    /\ day_keys_by_post = <<>>
    /\ entries_by_date = <<>>
    /\ entered_rows = <<>>
    /\ entries_total = 0
    /\ seen = {}
    /\ records = <<>>
    /\ per_star_counts = <<>>
    /\ per_star_stats = <<>>
    /\ row_i = 0
    /\ mismatches = <<>>
    /\ low_outliers = <<>>

\* the value helpers are given no input in a run of a script
NoSummary == [by |-> "none", n |-> 0]
NoRecord  == [kind |-> "null"]
NoResult  == [helper |-> "none", error |-> "none", value |-> None]
NoRun     == [file_i |-> 0]
NoStats   == [by |-> "none"]

\* no source file and no day bucket is given at file level
Parked ==
    /\ files = <<>>
    /\ run = NoRun
    /\ bucket = <<>>
    /\ daily_stats = NoStats

Idle ==
    /\ sample = <<>>
    /\ quantiles = <<>>
    /\ summary = NoSummary
    /\ record = NoRecord
    /\ extracted = NoResult
    /\ Parked

ExportInit == pc = "reconcile" /\ args = DefaultArgs /\ Blank /\ Idle

\* variant: the day key is recorded for every offer, retained or not
ConsiderAlwaysRecordsDay(day_key, post_id, entry) ==
    /\ pc = "reconcile"
    /\ Len(offered) < MaxObs
    /\ offered' = Append(offered, Obs(day_key, post_id, entry))
    /\ IF entry.isDict
       THEN /\ entries_by_post' =
                   IF ConsiderReplaces(entries_by_post, post_id, entry)
                   THEN Put(entries_by_post, post_id, entry)
                   ELSE entries_by_post
            /\ day_keys_by_post' = Put(day_keys_by_post, post_id, day_key)
       ELSE UNCHANGED exportVars
    /\ UNCHANGED <<pc, args, helperVars, userVars, auditVars>>

\* one iteration of the source loops: the next (day_key, post_id, entry)
Consider(day_key, post_id, entry) ==
    /\ pc = "reconcile"
    /\ Len(offered) < MaxObs
    /\ offered' = Append(offered, Obs(day_key, post_id, entry))
    /\ IF entry.isDict /\ ConsiderReplaces(entries_by_post, post_id, entry)
       THEN /\ entries_by_post' = Put(entries_by_post, post_id, entry)
            /\ day_keys_by_post' = Put(day_keys_by_post, post_id, day_key)
       ELSE UNCHANGED exportVars
    /\ UNCHANGED <<pc, args, helperVars, userVars, auditVars>>

\* the source loops are exhausted; main goes on to build the items
EndReconcile ==
    /\ pc = "reconcile"
    /\ pc' = "items"
    /\ UNCHANGED <<args, helperVars, offered, exportVars, userVars, auditVars>>

----------------------------------------------------------------------------
(* stats_by_user.py *)

\* get_participant_ids: the id list, or [] when it is not a list
get_participant_ids(raffle) == IF raffle.hasIds THEN raffle.ids ELSE <<>>

\* winner_present: a winner id or a non-empty winner name, nested or top level
user_winner_present(raffle) == raffle.winner \in {"nested", "top"}

\* the key under which add_entry files an entry: entries_by_date[date][post_id]
AddEntryKey(date, post_id) == <<date, post_id>>

\* the condition of add_entry()
AddEntryReplaces(map, key, entry) ==
    \/ key \notin DOMAIN map
    \/ TupleGT(score_entry(entry), score_entry(map[key]))

UserInit == pc = "add_entries" /\ args = DefaultArgs /\ Blank /\ Idle

\* one iteration of the source loops of main
AddEntry(day_key, post_id, entry) ==
    /\ pc = "add_entries"
    /\ Len(offered) < MaxObs
    /\ offered' = Append(offered, Obs(day_key, post_id, entry))
    /\ IF /\ entry.isDict
          /\ ResolvedId \in Range(get_participant_ids(entry))
          /\ AddEntryReplaces(entries_by_date,
                              AddEntryKey(day_key, post_id), entry)
       THEN entries_by_date' =
                Put(entries_by_date, AddEntryKey(day_key, post_id), entry)
       ELSE UNCHANGED entries_by_date
    /\ UNCHANGED <<pc, args, helperVars, exportVars, entered_rows, entries_total,
                   auditVars>>

\* sort key of entered_rows: (date, stars or 99, postId)
EnteredRowBefore(a, b) ==
    LET sa == IF a.stars # None THEN a.stars ELSE 99
        sb == IF b.stars # None THEN b.stars ELSE 99
    IN \/ a.date < b.date
       \/ a.date = b.date /\ sa < sb
       \/ a.date = b.date /\ sa = sb /\ a.postId < b.postId

\* build_report: one row and one counted entry per settled retained entry
BuildReport ==
    /\ pc = "add_entries"
    /\ pc' = "reported"
    /\ LET settledKeys == {k \in DOMAIN entries_by_date :
                              user_winner_present(entries_by_date[k])}
           rows == {[date |-> k[1], stars |-> get_star(entries_by_date[k]),
                     postId |-> k[2]] : k \in settledKeys}
       IN /\ entered_rows' = SortSeq(SetToSeq(rows), EnteredRowBefore)
          /\ entries_total' = Cardinality(settledKeys)
    /\ UNCHANGED <<args, helperVars, offered, exportVars, entries_by_date, auditVars>>

----------------------------------------------------------------------------
(* verify_participant_counts.py *)

\* command lines: the defaults; --stars all --min-count 0; and
\* --stars 3,5 --min-count 7 --iqr-mult 0 --five-star-rel 1.0
AuditArgs ==
    {DefaultArgs,
     [star_all |-> TRUE, star_filter |-> {}, min_count |-> 0,
      iqr_mult |-> 150, five_star_rel |-> 25],
     [star_all |-> FALSE, star_filter |-> {3, 5}, min_count |-> 7,
      iqr_mult |-> 0, five_star_rel |-> 100]}

AuditInit == pc = "scan" /\ args \in AuditArgs /\ Blank /\ Idle

\* ended = bool(end_time and end_time <= now_sec)
Ended(end_time) == end_time # None /\ end_time # 0 /\ end_time <= Now

\* the record appended for a raffle (stickerName, a display field, is left out)
Row(day_key, post_id, raffle) ==
    [postId |-> post_id,
     dayKey |-> day_key,
     stars |-> get_star(raffle),
     endTime |-> get_end_time(raffle),
     ended |-> Ended(get_end_time(raffle)),
     settled |-> winner_present(raffle),
     participantCount |-> get_participant_info(raffle)[1],
     participantIdsLength |-> get_participant_info(raffle)[2]]

\* one iteration of the scan loop: a post id already in seen is skipped
ScanRaffle(day_key, post_id, raffle) ==
    /\ pc = "scan"
    /\ Len(offered) < MaxObs
    /\ offered' = Append(offered, Obs(day_key, post_id, raffle))
    /\ IF raffle.isDict /\ post_id \notin seen
       THEN /\ seen' = seen \cup {post_id}
            /\ records' = Append(records, Row(day_key, post_id, raffle))
       ELSE UNCHANGED <<seen, records>>
    /\ UNCHANGED <<pc, args, helperVars, exportVars, userVars, per_star_counts,
                   per_star_stats, row_i, mismatches, low_outliers>>

\* star_key = row["stars"] if row["stars"] is not None else "unknown"
star_key(stars) == IF stars # None THEN stars ELSE Unknown

\* variant: the settled test is missing
InStratumEndedOnly(row) == row.ended /\ row.participantCount # None

\* the rows that contribute their count to the per-star samples
InStratum(row) ==
    row.ended /\ row.settled /\ row.participantCount # None

\* per_star_counts[key]: the counts of the contributing rows, in record order
StratumCounts(rows, key) ==
    LET sel == SelectSeq(rows,
                   LAMBDA r : InStratum(r) /\ star_key(r.stars) = key)
    IN [i \in 1..Len(sel) |-> sel[i].participantCount]

\* variant: the rank is not interpolated (nearest lower rank)
percentile_lower_rank(values, pct) ==
    IF Len(values) = 0 THEN None
    ELSE LET v == SortSeq(values, LAMBDA a, b : a < b)
         IN 100 * v[((Len(v) - 1) * pct) \div 100 + 1]

\* variant: "values = sorted(values)" is left out
percentile_unsorted(values, pct) ==
    IF Len(values) = 0 THEN None
    ELSE LET v == values
             n == Len(v)
             k == (n - 1) * pct
             f == k \div 100
             c == MinOf(f + 1, n - 1)
         IN IF n = 1 THEN 100 * v[1]
            ELSE IF f = c THEN 100 * v[f + 1]
            ELSE 100 * v[f + 1] + (v[c + 1] - v[f + 1]) * (k - 100 * f)

\* percentile(values, pct) in hundredths; None for an empty sample
percentile(values, pct) ==
    IF Len(values) = 0 THEN None
    ELSE LET v == SortSeq(values, LAMBDA a, b : a < b)
             n == Len(v)
             k == (n - 1) * pct          \* 100 * k
             f == k \div 100
             c == MinOf(f + 1, n - 1)
         IN IF n = 1 THEN 100 * v[1]
            ELSE IF f = c THEN 100 * v[f + 1]
            ELSE 100 * v[f + 1] + (v[c + 1] - v[f + 1]) * (k - 100 * f)

\* compute_stats(values); min and max are counts, the percentiles and the
\* iqr are in hundredths
compute_stats(values) ==
    IF Len(values) = 0
    THEN [n |-> 0, min |-> None, p10 |-> None, p25 |-> None,
          median |-> None, p75 |-> None, p90 |-> None, max |-> None,
          iqr |-> None]
    ELSE LET v == SortSeq(values, LAMBDA a, b : a < b)
             p25 == percentile(v, 25)
             p75 == percentile(v, 75)
         IN [n |-> Len(v), min |-> v[1], p10 |-> percentile(v, 10),
             p25 |-> p25, median |-> percentile(v, 50), p75 |-> p75,
             p90 |-> percentile(v, 90), max |-> v[Len(v)],
             iqr |-> IF p25 # None /\ p75 # None THEN p75 - p25 ELSE None]

\* per-star stats over the whole record list (no star filter)
ComputeStats ==
    /\ pc = "scan"
    /\ pc' = "flag"
    /\ LET keys == {star_key(records[i].stars) :
                      i \in {j \in 1..Len(records) : InStratum(records[j])}}
       IN /\ per_star_counts' = [k \in keys |-> StratumCounts(records, k)]
          /\ per_star_stats' =
                 [k \in keys |-> compute_stats(StratumCounts(records, k))]
    /\ row_i' = 1
    /\ UNCHANGED <<args, helperVars, offered, exportVars, userVars, seen, records,
                   mismatches, low_outliers>>

\* star_filter is not None and stars not in star_filter: the row is skipped
PassesStarFilter(row, a) == a.star_all \/ row.stars \in a.star_filter

\* ids_len is not None and count is not None and ids_len != count
IsMismatch(row) ==
    /\ row.participantIdsLength # None
    /\ row.participantCount # None
    /\ row.participantIdsLength # row.participantCount

\* variant: the list does not start with min_count
CandidatesWithoutMinCount(stats, stars, a) ==
    (IF stats.p10 # None THEN <<stats.p10 * 50>> ELSE <<>>)
    \o (IF stats.iqr # None /\ stats.p25 # None
        THEN <<stats.p25 * 100 - a.iqr_mult * stats.iqr>> ELSE <<>>)
    \o (IF stars = 5 /\ stats.median # None
        THEN <<stats.median * a.five_star_rel>> ELSE <<>>)

\* the list thresholds of a row, in ten-thousandths
Candidates(stats, stars, a) ==
    <<a.min_count * 10000>>
    \o (IF stats.p10 # None THEN <<stats.p10 * 50>> ELSE <<>>)
    \o (IF stats.iqr # None /\ stats.p25 # None
        THEN <<stats.p25 * 100 - a.iqr_mult * stats.iqr>> ELSE <<>>)
    \o (IF stars = 5 /\ stats.median # None
        THEN <<stats.median * a.five_star_rel>> ELSE <<>>)

\* the thresholds that max() ranges over: t is not None and t > 0
Positive(thresholds) ==
    {thresholds[i] : i \in {j \in 1..Len(thresholds) :
                               thresholds[j] # None /\ thresholds[j] > 0}}

\* variant: min() instead of max()
ThresholdIsLeast(thresholds) ==
    CHOOSE x \in Positive(thresholds) : \A y \in Positive(thresholds) : x <= y

\* threshold = max(t for t in thresholds if t is not None and t > 0)
Threshold(thresholds) == Max(Positive(thresholds))

\* round(threshold, 2) of a positive threshold: ten-thousandths to
\* hundredths, ties to even
Round2(threshold) ==
    LET q == threshold \div 100
        r == threshold % 100
    IN IF r < 50 THEN q
       ELSE IF r > 50 THEN q + 1
       ELSE IF q % 2 = 0 THEN q ELSE q + 1

\* {**row, "threshold": round(threshold, 2), "reason": "low-outlier"}
LowOutlierRow(row, threshold) ==
    [postId |-> row.postId, dayKey |-> row.dayKey, stars |-> row.stars,
     endTime |-> row.endTime, ended |-> row.ended, settled |-> row.settled,
     participantCount |-> row.participantCount,
     participantIdsLength |-> row.participantIdsLength,
     threshold |-> Round2(threshold), reason |-> "low-outlier"]

\* variant: <= instead of <
BelowOrAtThreshold(count, threshold) == count * 10000 <= threshold

\* count < threshold
BelowThreshold(count, threshold) == count * 10000 < threshold

\* one iteration of the flag loop, on records[row_i]; max() of an empty
\* sequence raises ValueError and the run ends without a report
FlagRow ==
    /\ pc = "flag"
    /\ row_i <= Len(records)
    /\ LET row == records[row_i]
           count == row.participantCount
           key == star_key(row.stars)
           audited == PassesStarFilter(row, args) /\ row.ended /\ row.settled
           rated == /\ audited
                    /\ count # None
                    /\ key \in DOMAIN per_star_stats
                    /\ per_star_stats[key].n # 0
           thresholds == Candidates(per_star_stats[key], row.stars, args)
       IN /\ mismatches' =
                 IF audited /\ IsMismatch(row)
                 THEN Append(mismatches, row) ELSE mismatches
          /\ IF rated /\ Positive(thresholds) = {}
             THEN /\ pc' = "crashed"
                  /\ UNCHANGED <<row_i, low_outliers>>
             ELSE /\ pc' = pc
                  /\ row_i' = row_i + 1
                  /\ low_outliers' =
                         IF rated /\ BelowThreshold(count,
                                                    Threshold(thresholds))
                         THEN Append(low_outliers,
                                     LowOutlierRow(row,
                                                   Threshold(thresholds)))
                         ELSE low_outliers
    /\ UNCHANGED <<args, helperVars, offered, exportVars, userVars, seen, records,
                   per_star_counts, per_star_stats>>

\* variant: the low-outlier list is sorted by identifier only
LowOutlierByPostId(a, b) == a.postId < b.postId

\* sort key of low_outliers: (participantCount, dayKey, postId)
LowOutlierBefore(a, b) ==
    \/ a.participantCount < b.participantCount
    \/ a.participantCount = b.participantCount /\ a.dayKey < b.dayKey
    \/ /\ a.participantCount = b.participantCount
       /\ a.dayKey = b.dayKey
       /\ a.postId < b.postId

\* sort key of mismatches: (dayKey, postId)
MismatchBefore(a, b) ==
    \/ a.dayKey < b.dayKey
    \/ a.dayKey = b.dayKey /\ a.postId < b.postId

\* the loop is over: both lists are sorted and the report is written
WriteReport ==
    /\ pc = "flag"
    /\ row_i > Len(records)
    /\ pc' = "done"
    /\ low_outliers' = SortSeq(low_outliers, LowOutlierBefore)
    /\ mismatches' = SortSeq(mismatches, MismatchBefore)
    /\ UNCHANGED <<args, helperVars, offered, exportVars, userVars, seen, records,
                   per_star_counts, per_star_stats, row_i>>

\* a post is filed under the same day bucket in every snapshot
AuditDay(post_id) == IF post_id = 2 THEN 1 ELSE 2

Init == ExportInit \/ UserInit \/ AuditInit

Next ==
    \/ \E day_key \in Days, post_id \in NextPosts(offered),
          entry \in ExportRaffles : Consider(day_key, post_id, entry)
    \/ EndReconcile
    \/ \E day_key \in Days, post_id \in NextPosts(offered),
          entry \in UserRaffles : AddEntry(day_key, post_id, entry)
    \/ BuildReport
    \/ \E post_id \in NextPosts(offered), raffle \in AuditRaffles :
          ScanRaffle(AuditDay(post_id), post_id, raffle)
    \/ ComputeStats
    \/ FlagRow
    \/ WriteReport

Spec == Init /\ [][Next]_vars

----------------------------------------------------------------------------
(* Distribution statistics over a given sample                             *)
(*   verify_participant_counts.py  percentile, compute_stats               *)
(*   raffle_dash.py                percentile (the same code),             *)
(*                                 stats_from_values                       *)
(*   generate_daily_post.py        compute_stats.avg / median              *)

MaxLen == 3                     \* length of the sample
Counts == {0, 1, 2, 6, 20}      \* participant counts in the sample
Pcts == {0, 10, 25, 33, 50, 75, 90, 100}

Samples == UNION {[1..n -> Counts] : n \in 0..MaxLen}

RECURSIVE Sum(_)
Sum(values) ==
    IF values = <<>> THEN 0 ELSE values[1] + Sum(Tail(values))

\* round(x, 2) of the fraction num / den >= 0, in hundredths (half to even)
RoundRatio2(num, den) ==
    LET q == (100 * num) \div den
        r == (100 * num) % den
    IN IF 2 * r < den THEN q
       ELSE IF 2 * r > den THEN q + 1
       ELSE IF q % 2 = 0 THEN q ELSE q + 1

\* raffle_dash.stats_from_values: {"n": 0} for an empty list, otherwise
\* avg, median and p90 in hundredths, min and max as given
stats_from_values(values) ==
    IF Len(values) = 0 THEN [by |-> "stats_from_values", n |-> 0]
    ELSE LET v == SortSeq(values, LAMBDA a, b : a < b)
         IN [by |-> "stats_from_values", n |-> Len(v),
             avg |-> RoundRatio2(Sum(v), Len(v)),
             median |-> percentile(v, 50), p90 |-> percentile(v, 90),
             min |-> v[1], max |-> v[Len(v)]]

\* generate_daily_post.compute_stats.avg, in sixtieths (exact for up to six
\* values): sum(values) / len(values) if values else 0
avg(values) ==
    IF Len(values) = 0 THEN 0 ELSE (60 * Sum(values)) \div Len(values)

\* generate_daily_post.compute_stats.median, in hundredths:
\* statistics.median(values), and 0 for an empty list
median(values) ==
    IF Len(values) = 0 THEN 0
    ELSE LET v == SortSeq(values, LAMBDA a, b : a < b)
             n == Len(v)
         IN IF n % 2 = 1 THEN 100 * v[(n + 1) \div 2]
            ELSE 50 * (v[n \div 2] + v[n \div 2 + 1])

SampleInit ==
    /\ pc = "sample"
    /\ args = DefaultArgs
    /\ Blank
    /\ sample \in Samples
    /\ quantiles = <<>>
    /\ summary = NoSummary
    /\ record = NoRecord
    /\ extracted = NoResult
    /\ Parked

\* percentile(sample, pct)
Percentile(pct) ==
    /\ pc = "sample"
    /\ pct \notin DOMAIN quantiles
    /\ quantiles' = Put(quantiles, pct, percentile(sample, pct))
    /\ UNCHANGED <<pc, args, offered, exportVars, userVars, auditVars,
                   sample, summary, record, extracted, batchVars>>

Summarize(result) ==
    /\ pc = "sample"
    /\ summary' = result
    /\ UNCHANGED <<pc, args, offered, exportVars, userVars, auditVars,
                   sample, quantiles, record, extracted, batchVars>>

\* verify_participant_counts.compute_stats(sample)
ComputeStatsOfSample ==
    Summarize([by |-> "compute_stats"] @@ compute_stats(sample))

\* raffle_dash.stats_from_values(sample)
StatsFromValues == Summarize(stats_from_values(sample))

\* generate_daily_post: avg(sample) and median(sample)
AvgMedian ==
    Summarize([by |-> "avg_median", n |-> Len(sample),
               avg |-> avg(sample), median |-> median(sample)])

----------------------------------------------------------------------------
(* Field normalisers on raw JSON values.                                   *)
(*                                                                         *)
(* A JSON value is a record with a kind:                                   *)
(*   "null"   None, also what dict.get returns for a missing key           *)
(*   "num"    a finite number of magnitude 1000 * kilo + unit + tenth / 10 *)
(*            (0 <= unit < 1000, 0 <= tenth < 10), negative when neg       *)
(*   "nan", "inf"   the floats NaN and Infinity (json.loads reads both)    *)
(*   "str"    a string, chars is the sequence of its characters            *)
(*   "list"   a list, items is the sequence of its elements                *)
(*   "dict"   an object; its other fields are the values of its keys       *)
(* A call returns [error |-> "none", value |-> v] or raises the exception  *)
(* named by error.                                                         *)

Kilo1e12 == 1000000000          \* 1e12 / 1000

Null == [kind |-> "null"]
NaN == [kind |-> "nan"]
Infinity == [kind |-> "inf"]
Num(neg, kilo, unit, tenth) ==
    [kind |-> "num", neg |-> neg, kilo |-> kilo, unit |-> unit,
     tenth |-> tenth]
IntV(i) == Num(i < 0, 0, IF i < 0 THEN 0 - i ELSE i, 0)
Str(chars) == [kind |-> "str", chars |-> chars]
List(items) == [kind |-> "list", items |-> items]

WinnerObj(winnerId, winnerName) ==
    [kind |-> "dict", winnerId |-> winnerId, winnerName |-> winnerName]
RaffleObj(stickerStars, endTime, participantCount, participantIds, stickerName) ==
    [kind |-> "dict", stickerStars |-> stickerStars, endTime |-> endTime,
     participantCount |-> participantCount,
     participantIds |-> participantIds, stickerName |-> stickerName]
Record(winner, winnerId, winnerName, raffle, stickerStars, endTime) ==
    [kind |-> "dict", winner |-> winner, winnerId |-> winnerId,
     winnerName |-> winnerName, raffle |-> raffle,
     stickerStars |-> stickerStars, endTime |-> endTime]

Returned(v) == [error |-> "none", value |-> v]
Raises(e) == [error |-> e, value |-> None]

\* isinstance(v, dict)
IsDict(v) == v.kind = "dict"

\* bool(v)
Truthy(v) ==
    CASE v.kind = "null" -> FALSE
      [] v.kind = "num"  -> v.kilo # 0 \/ v.unit # 0 \/ v.tenth # 0
      [] v.kind = "str"  -> v.chars # <<>>
      [] v.kind = "list" -> v.items # <<>>
      [] v.kind = "dict" -> \E k \in DOMAIN v \ {"kind"} : v[k] # Null
      [] OTHER           -> TRUE

DigitChars == <<"0", "1", "2", "3", "4", "5", "6", "7", "8", "9">>
IsDigits(chars) == chars # <<>> /\ Range(chars) \subseteq Range(DigitChars)
DigitVal(c) == (CHOOSE i \in 1..10 : DigitChars[i] = c) - 1

RECURSIVE DigitsValue(_)
DigitsValue(chars) ==
    IF chars = <<>> THEN 0
    ELSE 10 * DigitsValue(SubSeq(chars, 1, Len(chars) - 1))
         + DigitVal(chars[Len(chars)])

\* the integer a finite number truncates to (toward zero)
Trunc(num) ==
    IF num.neg THEN 0 - (1000 * num.kilo + num.unit)
    ELSE 1000 * num.kilo + num.unit

\* int(v).  Strings are strings of digits or not numbers at all.
int(v) ==
    CASE v.kind = "num" -> Returned(Trunc(v))
      [] v.kind = "nan" -> Raises("ValueError")
      [] v.kind = "inf" -> Raises("OverflowError")
      [] v.kind = "str" -> IF IsDigits(v.chars)
                           THEN Returned(DigitsValue(v.chars))
                           ELSE Raises("ValueError")
      [] OTHER          -> Raises("TypeError")

\* float(v).  Strings are strings of digits, "inf", "nan" or not numbers.
float(v) ==
    CASE v.kind \in {"num", "nan", "inf"} -> Returned(v)
      [] v.kind = "str" ->
            IF IsDigits(v.chars)
            THEN LET n == Len(v.chars)
                     cut == IF n > 3 THEN n - 3 ELSE 0
                 IN Returned(Num(FALSE,
                                 DigitsValue(SubSeq(v.chars, 1, cut)),
                                 DigitsValue(SubSeq(v.chars, cut + 1, n)),
                                 0))
            ELSE IF v.chars = <<"i", "n", "f">> THEN Returned(Infinity)
            ELSE IF v.chars = <<"n", "a", "n">> THEN Returned(NaN)
            ELSE Raises("ValueError")
      [] OTHER -> Raises("TypeError")

\* variant: every number is taken as milliseconds
to_epoch_sec_always_ms(value) ==
    IF value.kind = "null" THEN Returned(None)
    ELSE LET num == float(value)
         IN IF num.error # "none" THEN Returned(None)
            ELSE IF num.value.kind = "nan" THEN Returned(None)
            ELSE IF num.value.kind = "inf" THEN Raises("OverflowError")
            ELSE Returned(IF num.value.neg THEN 0 - num.value.kilo
                          ELSE num.value.kilo)

\* to_epoch_sec (verify_participant_counts, export_reverify_list and
\* raffle_dash have the same code)
to_epoch_sec(value) ==
    IF value.kind = "null" THEN Returned(None)
    ELSE LET num == float(value)
         IN IF num.error # "none" THEN Returned(None)
            ELSE IF num.value.kind = "nan" THEN Returned(None)
            ELSE IF num.value.kind = "inf" THEN Raises("OverflowError")
            ELSE IF ~num.value.neg /\ num.value.kilo >= Kilo1e12
                 THEN Returned(num.value.kilo)
            ELSE Returned(Trunc(num.value))

\* raffle.get("raffle").get(key), and raffle.get(key) when that is None
NestedOrTop(raffle, key) ==
    LET raffle_data == raffle.raffle
        raw == IF IsDict(raffle_data) THEN raffle_data[key] ELSE Null
    IN IF raw = Null THEN raffle[key] ELSE raw

\* int(raw) guarded by except (TypeError, ValueError): return None
IntOrNone(raw) ==
    LET r == int(raw)
    IN IF r.error \in {"TypeError", "ValueError"} THEN Returned(None) ELSE r

\* verify_participant_counts.get_star (export_reverify_list and
\* stats_by_user have the same code)
verify_get_star(raffle) == IntOrNone(NestedOrTop(raffle, "stickerStars"))

\* raffle_dash.get_star
dash_get_star(raffle) ==
    LET star == IntOrNone(NestedOrTop(raffle, "stickerStars"))
    IN IF star.error # "none" \/ star.value = None THEN star
       ELSE IF 1 <= star.value /\ star.value <= 5 THEN star
       ELSE Returned(None)

\* verify_participant_counts.get_end_time
verify_get_end_time(raffle) == to_epoch_sec(NestedOrTop(raffle, "endTime"))

\* verify_participant_counts.get_participant_info: <<count, ids_len>>
verify_get_participant_info(raffle) ==
    LET raffle_data == raffle.raffle
    IN IF ~IsDict(raffle_data) THEN Returned(<<None, None>>)
       ELSE LET ids == raffle_data.participantIds
                ids_len == IF ids.kind = "list" THEN Len(ids.items) ELSE None
                count == IntOrNone(raffle_data.participantCount)
            IN IF count.error # "none" THEN count
               ELSE IF count.value = None /\ ids_len # None
                    THEN Returned(<<ids_len, ids_len>>)
               ELSE Returned(<<count.value, ids_len>>)

\* raffle_dash.get_participant_info: <<count, has_ids>>
dash_get_participant_info(raffle) ==
    LET raffle_data == raffle.raffle
    IN IF ~IsDict(raffle_data) THEN Returned(<<None, FALSE>>)
       ELSE LET ids == raffle_data.participantIds
            IN IF ids.kind = "list" THEN Returned(<<Len(ids.items), TRUE>>)
               ELSE LET count == IntOrNone(raffle_data.participantCount)
                    IN IF count.error # "none" THEN count
                       ELSE Returned(<<count.value, FALSE>>)

\* stats_by_user.get_participant_count: <<count>>
get_participant_count(raffle) ==
    LET raffle_data == raffle.raffle
    IN IF ~IsDict(raffle_data) THEN Returned(<<None>>)
       ELSE LET count == IntOrNone(raffle_data.participantCount)
                ids == raffle_data.participantIds
            IN IF count.error # "none" THEN count
               ELSE IF count.value # None THEN Returned(<<count.value>>)
               ELSE IF ids.kind = "list" THEN Returned(<<Len(ids.items)>>)
               ELSE Returned(<<None>>)

\* get_winner: <<winner_id, winner_name>>; "winnerName or ''" is a string
get_winner(raffle) ==
    LET from == IF IsDict(raffle.winner) THEN raffle.winner ELSE raffle
    IN << from.winnerId,
          IF Truthy(from.winnerName) THEN from.winnerName ELSE Str(<<>>) >>

RECURSIVE LStrip(_, _)
LStrip(chars, ch) ==
    IF chars # <<>> /\ Head(chars) = ch THEN LStrip(Tail(chars), ch)
    ELSE chars

RECURSIVE RStrip(_, _)
RStrip(chars, ch) ==
    IF chars # <<>> /\ chars[Len(chars)] = ch
    THEN RStrip(SubSeq(chars, 1, Len(chars) - 1), ch)
    ELSE chars

Strip(chars) == RStrip(LStrip(chars, " "), " ")

Lower(ch) == IF ch = "U" THEN "u" ELSE ch

\* str(v); a value that is not a string prints as some other text
StrOf(v) == IF v.kind = "str" THEN v.chars ELSE <<"?">>

\* normalize_name(raw)
normalize_name(raw) ==
    IF raw = <<>> THEN <<>>
    ELSE LET name == LStrip(Strip(raw), "/")
             cut == IF Len(name) >= 2 /\ Lower(name[1]) = "u" /\ name[2] = "/"
                    THEN SubSeq(name, 3, Len(name)) ELSE name
         IN Strip(cut)

\* verify_participant_counts.winner_present
verify_winner_present(raffle) ==
    LET w == get_winner(raffle)
    IN Truthy(w[1]) \/ normalize_name(StrOf(w[2])) # <<>>

\* stats_by_user.winner_present: as verify_participant_counts, with a test
\* "winner_name is None" that "winnerName or ''" never lets through
stats_winner_present(raffle) ==
    LET w == get_winner(raffle)
    IN IF Truthy(w[1]) THEN TRUE
       ELSE IF w[2] = Null THEN FALSE
       ELSE normalize_name(StrOf(w[2])) # <<>>

\* raffle_dash.winner_present
dash_winner_present(raffle) ==
    \/ /\ IsDict(raffle.winner)
       /\ Truthy(raffle.winner.winnerId) \/ Truthy(raffle.winner.winnerName)
    \/ Truthy(raffle.winnerId)
    \/ Truthy(raffle.winnerName)

\* raffle_dash.compute_metrics: end_sec is not None and end_sec <= now_sec
dash_expired(end_sec) == end_sec # None /\ end_sec <= Now

\* stats_by_user.score_entry (export_reverify_list has the same code):
\* "entry.get(key) or {}" keeps a value that is true, and .get on a value
\* that is not a dict raises AttributeError
user_score_entry(entry) ==
    LET winner == IF Truthy(entry.winner) THEN entry.winner
                  ELSE WinnerObj(Null, Null)
        raffle == IF Truthy(entry.raffle) THEN entry.raffle
                  ELSE RaffleObj(Null, Null, Null, Null, Null)
    IN IF ~IsDict(winner) \/ ~IsDict(raffle) THEN Raises("AttributeError")
       ELSE Returned(
              << IF Truthy(winner.winnerName) \/ Truthy(winner.winnerId)
                 THEN 1 ELSE 0,
                 IF raffle.participantCount # Null
                    \/ raffle.participantIds # Null THEN 1 ELSE 0,
                 IF raffle.stickerStars # Null THEN 1 ELSE 0,
                 IF raffle.stickerName # Null THEN 1 ELSE 0 >>)

----------------------------------------------------------------------------
(* The value helpers applied to given inputs *)

T2A == Str(<<"t", "2", "_", "a">>)             \* a user id
Bob == Str(<<"b">>)                            \* a user name

RawStars ==
    {Null, IntV(0), IntV(1), IntV(5), IntV(6), IntV(-1),
     Num(FALSE, 0, 3, 7), Str(<<"3">>), Str(<<"x">>), NaN, Infinity,
     List(<<1>>)}
TopStars == {Null, IntV(4), IntV(6)}

RawTimes ==
    {Null, IntV(0), IntV(-5), Num(TRUE, 0, 1, 5), IntV(1), IntV(3),
     Num(FALSE, 0, 1, 9),
     Num(FALSE, 1700000, 0, 0),                \* 1700000000
     Num(FALSE, 1700000000, 0, 0),             \* 1700000000000
     Num(FALSE, 1700000000, 999, 0),           \* 1700000000999
     Num(FALSE, Kilo1e12, 0, 0),               \* 1e12
     Str(<<"1", "7", "0", "0", "0", "0", "0", "0", "0", "0", "0", "0",
           "0">>),
     Str(<<"1", "7">>), Str(<<"a", "b", "c">>), Str(<<"i", "n", "f">>),
     NaN, Infinity, List(<<1>>)}
TopTimes == {Null, IntV(1)}

RawCounts ==
    {Null, IntV(0), IntV(7), Str(<<"7">>), Str(<<"x">>), Infinity,
     Num(FALSE, 0, 2, 9)}
RawIds == {Null, List(<<>>), List(<<1, 2>>), Str(<<"a", "b">>)}

RawNames ==
    {Null, Bob, Str(<<"u", "/">>), Str(<<"/", "u", "/">>), Str(<<"/">>),
     Str(<<"U", "/", "b">>), Str(<<" ", " ">>), Str(<<" ", "u", "/", " ">>)}
RawWinnerIds == {Null, T2A, Str(<<>>), IntV(0)}

\* values that are not objects: None, a string, a list, "" and 0
NonDicts == {Null, Str(<<"s", "t", "r">>), List(<<1>>), Str(<<>>), IntV(0)}

RawWinners ==
    {WinnerObj(i, n) : i \in RawWinnerIds, n \in RawNames} \cup NonDicts

NoRaffle == RaffleObj(Null, Null, Null, Null, Null)

StarRecords ==
    {Record(Null, Null, Null, RaffleObj(s, Null, Null, Null, Null), t, Null) :
        s \in RawStars, t \in TopStars}
    \cup {Record(Null, Null, Null, r, t, Null) : r \in NonDicts, t \in TopStars}

TimeRecords ==
    {Record(Null, Null, Null, RaffleObj(Null, e, Null, Null, Null), Null, t) :
        e \in RawTimes, t \in TopTimes}
    \cup {Record(Null, Null, Null, Null, Null, e) : e \in RawTimes}

CountRecords ==
    {Record(Null, Null, Null, RaffleObj(Null, Null, c, l, Null), Null, Null) :
        c \in RawCounts, l \in RawIds}

WinnerRecords ==
    {Record(w, i, n, NoRaffle, Null, Null) :
        w \in RawWinners, i \in {Null, T2A},
        n \in {Null, Bob, Str(<<"u", "/">>)}}

ContainerRecords ==
    {Record(w, Null, Null, r, Null, Null) :
        w \in NonDicts \cup {WinnerObj(T2A, Null)},
        r \in NonDicts \cup {RaffleObj(IntV(5), IntV(1), IntV(7),
                                       List(<<1, 2>>), Bob)}}

Records ==
    StarRecords \cup TimeRecords \cup CountRecords \cup WinnerRecords
        \cup ContainerRecords

RecordInit ==
    /\ pc = "record"
    /\ args = DefaultArgs
    /\ Blank
    /\ sample = <<>>
    /\ quantiles = <<>>
    /\ summary = NoSummary
    /\ record \in Records
    /\ extracted = NoResult
    /\ Parked

\* one helper is called with the record
Apply(helper, result) ==
    /\ pc = "record"
    /\ extracted' = [helper |-> helper, error |-> result.error,
                     value |-> result.value]
    /\ UNCHANGED <<pc, args, offered, exportVars, userVars, auditVars,
                   sample, quantiles, summary, record, batchVars>>

VerifyGetStar == Apply("verify.get_star", verify_get_star(record))
DashGetStar == Apply("dash.get_star", dash_get_star(record))
VerifyGetEndTime == Apply("verify.get_end_time", verify_get_end_time(record))
VerifyGetParticipantInfo ==
    Apply("verify.get_participant_info", verify_get_participant_info(record))
DashGetParticipantInfo ==
    Apply("dash.get_participant_info", dash_get_participant_info(record))
UserGetParticipantCount ==
    Apply("user.get_participant_count", get_participant_count(record))
VerifyWinnerPresent ==
    Apply("verify.winner_present", Returned(verify_winner_present(record)))
DashWinnerPresent ==
    Apply("dash.winner_present", Returned(dash_winner_present(record)))
UserScoreEntry == Apply("user.score_entry", user_score_entry(record))

\* verify_participant_counts / export_reverify_list:
\* ended = bool(end_time and end_time <= now_sec)
VerifyEnded ==
    LET end_time == verify_get_end_time(record)
    IN Apply("verify.ended",
             IF end_time.error # "none" THEN end_time
             ELSE Returned(Ended(end_time.value)))

\* raffle_dash.compute_metrics: expired
DashExpired ==
    LET end_sec == verify_get_end_time(record)
    IN Apply("dash.expired",
             IF end_sec.error # "none" THEN end_sec
             ELSE Returned(dash_expired(end_sec.value)))

HelpersInit == SampleInit \/ RecordInit

HelpersNext ==
    \/ \E pct \in Pcts : Percentile(pct)
    \/ ComputeStatsOfSample
    \/ StatsFromValues
    \/ AvgMedian
    \/ VerifyGetStar
    \/ DashGetStar
    \/ VerifyGetEndTime
    \/ VerifyGetParticipantInfo
    \/ DashGetParticipantInfo
    \/ UserGetParticipantCount
    \/ VerifyWinnerPresent
    \/ DashWinnerPresent
    \/ UserScoreEntry
    \/ VerifyEnded
    \/ DashExpired

SpecHelpers == HelpersInit /\ [][HelpersNext]_vars

----------------------------------------------------------------------------
(* Reconciliation properties *)

Score(i) == score_entry(offered[i].raffle)

\* the observations consider() was called with for post id p
ExportOffers(p) ==
    {i \in 1..Len(offered) : offered[i].raffle.isDict /\ offered[i].postId = p}

\* the observations add_entry() was called with for the key k = <<date, post>>
UserOffers(k) ==
    {i \in 1..Len(offered) :
        /\ offered[i].raffle.isDict
        /\ ResolvedId \in Range(get_participant_ids(offered[i].raffle))
        /\ <<offered[i].dayKey, offered[i].postId>> = k}

\* the earliest of the offers I that no other offer of I outscores
FirstMax(I) ==
    CHOOSE i \in I :
        /\ \A j \in I : ~TupleGT(Score(j), Score(i))
        /\ \A j \in I : j < i => TupleGT(Score(i), Score(j))

\* C1: after any sequence of offers the entry retained for a key (post id in
\* export_reverify_list, <<date, post id>> in stats_by_user) has a score that
\* no observation offered for that key exceeds.
C1_RetainedScoreIsMax ==
    /\ \A p \in DOMAIN entries_by_post : \A i \in ExportOffers(p) :
           ~TupleGT(Score(i), score_entry(entries_by_post[p]))
    /\ \A k \in DOMAIN entries_by_date : \A i \in UserOffers(k) :
           ~TupleGT(Score(i), score_entry(entries_by_date[k]))

\* a lower-scoring observation was offered first, a higher-scoring one later,
\* and the later one is retained
C1_Witness ==
    \E p \in DOMAIN entries_by_post : \E i, j \in ExportOffers(p) :
        /\ i < j
        /\ TupleGT(Score(j), Score(i))
        /\ entries_by_post[p] = offered[j].raffle

\* C2: the retained entry is the earliest-offered observation among those of
\* maximal score for its key (ties keep the first seen), together with the
\* day key it was offered under.
C2_FirstSeenOfMaxScore ==
    /\ \A p \in DOMAIN entries_by_post :
           /\ entries_by_post[p] = offered[FirstMax(ExportOffers(p))].raffle
           /\ day_keys_by_post[p] = offered[FirstMax(ExportOffers(p))].dayKey
    /\ \A k \in DOMAIN entries_by_date :
           entries_by_date[k] = offered[FirstMax(UserOffers(k))].raffle

\* two different observations of equal, maximal score were offered for one
\* post id and the earlier one is retained
C2_Witness ==
    \E p \in DOMAIN entries_by_post : \E i, j \in ExportOffers(p) :
        /\ i < j
        /\ Score(i) = Score(j)
        /\ offered[i].raffle # offered[j].raffle
        /\ offered[i].dayKey # offered[j].dayKey
        /\ \A h \in ExportOffers(p) : ~TupleGT(Score(h), Score(i))
        /\ entries_by_post[p] = offered[i].raffle
        /\ day_keys_by_post[p] = offered[i].dayKey

\* the identifiers read from the sources
YieldedPosts == PostsOf(Yielded(offered))

\* C3: when the reconciliation pass of export_reverify_list is over, the
\* canonical map has exactly one entry per identifier read from the sources
\* (also for identifiers whose observations all score (0,0,0,0)), and each
\* entry is an observation offered for its identifier.
C3_OneEntryPerIdentifier ==
    pc = "items" =>
        /\ DOMAIN entries_by_post = YieldedPosts
        /\ DOMAIN day_keys_by_post = YieldedPosts
        /\ Cardinality(DOMAIN entries_by_post) = Cardinality(YieldedPosts)
        /\ \A p \in YieldedPosts : \E i \in ExportOffers(p) :
               /\ entries_by_post[p] = offered[i].raffle
               /\ day_keys_by_post[p] = offered[i].dayKey

\* the pass is over, one identifier was observed twice and another only by an
\* observation that scores (0,0,0,0)
C3_Witness ==
    /\ pc = "items"
    /\ Cardinality(YieldedPosts) = 2
    /\ \E p \in YieldedPosts : Cardinality(ExportOffers(p)) = 2
    /\ \E p \in YieldedPosts : \A i \in ExportOffers(p) :
           Score(i) = <<0, 0, 0, 0>>

----------------------------------------------------------------------------
(* Audit properties *)

\* what consider() retains after the first n observations of obs (the whole
\* observation is kept, to have its day key)
RECURSIVE ConsiderFold(_, _)
ConsiderFold(obs, n) ==
    IF n = 0 THEN <<>>
    ELSE LET m == ConsiderFold(obs, n - 1)
             o == obs[n]
             e == [q \in DOMAIN m |-> m[q].raffle]
         IN IF o.raffle.isDict /\ ConsiderReplaces(e, o.postId, o.raffle)
            THEN Put(m, o.postId, o) ELSE m

\* C4: the observation audited for an identifier seen in several sources is
\* the one the completeness-score policy (consider) retains.
C4_AuditsConsiderChoice ==
    \A i \in 1..Len(records) :
        LET o == ConsiderFold(offered, Len(offered))[records[i].postId]
        IN records[i] = Row(o.dayKey, o.postId, o.raffle)

\* rows the flag loop has been through
Flagged(list) == {list[j].postId : j \in 1..Len(list)}

Processed == {i \in 1..Len(records) : i < row_i}

\* passes the star filter, ended, settled, known count
Rated(row) ==
    /\ args.star_all \/ row.stars \in args.star_filter
    /\ row.ended
    /\ row.settled
    /\ row.participantCount # None

StatsOf(row) ==
    per_star_stats[IF row.stars = None THEN Unknown ELSE row.stars]

\* the candidate thresholds of a row, in ten-thousandths
StatedCandidates(row) ==
    {args.min_count * 10000,
     50 * StatsOf(row).p10,
     100 * StatsOf(row).p25 - args.iqr_mult * StatsOf(row).iqr}
    \cup (IF row.stars = 5
          THEN {args.five_star_rel * StatsOf(row).median} ELSE {})

StatedPositive(row) == {t \in StatedCandidates(row) : t > 0}

\* C6: for every row that passes the star filter and is ended, settled and
\* has a known count, the effective threshold is the maximum of the strictly
\* positive candidates {min_count, 0.5*p10, p25 - iqr_mult*IQR, and for 5
\* stars five_star_rel*median}, and the row is a low outlier iff its count is
\* strictly below it.
C6_ThresholdIsMaxOfPositive ==
    pc \in {"done", "crashed"} =>
        \A i \in 1..Len(records) :
            Rated(records[i]) =>
                /\ StatedPositive(records[i]) # {}
                /\ records[i].postId \in Flagged(low_outliers)
                       <=> records[i].participantCount * 10000
                               < Max(StatedPositive(records[i]))

\* The same decision, for the rows the flag loop got through: it holds of
\* them in every run, also with the threshold recorded in the flagged row.
RatedRowsDecided ==
    \A i \in Processed :
        Rated(records[i]) =>
            /\ StatedPositive(records[i]) # {}
            /\ records[i].postId \in Flagged(low_outliers)
                   <=> records[i].participantCount * 10000
                           < Max(StatedPositive(records[i]))
            /\ \A j \in 1..Len(low_outliers) :
                   low_outliers[j].postId = records[i].postId =>
                       low_outliers[j].threshold =
                           Round2(Max(StatedPositive(records[i])))

\* the report is written; one rated row is flagged by a threshold other than
\* min_count while a non-positive candidate was ignored, another is not
\* flagged
RatedRowsDecidedWitness ==
    /\ pc = "done"
    /\ \E i \in Processed :
           /\ Rated(records[i])
           /\ records[i].postId \in Flagged(low_outliers)
           /\ Max(StatedPositive(records[i])) > args.min_count * 10000
           /\ StatedPositive(records[i]) # StatedCandidates(records[i])
    /\ \E i \in Processed :
           /\ Rated(records[i])
           /\ records[i].postId \notin Flagged(low_outliers)

\* C7 as stated: a flagged row's count is below every positive candidate
\* threshold of its stratum.
C7_BelowEveryCandidate ==
    \A i \in Processed :
        records[i].postId \in Flagged(low_outliers) =>
            \A t \in StatedPositive(records[i]) :
                records[i].participantCount * 10000 < t

\* C7 amended: a flagged row is rated and its count is below the largest
\* positive candidate threshold of its stratum, hence below at least one.
C7_BelowLargestCandidate ==
    \A i \in Processed :
        records[i].postId \in Flagged(low_outliers) =>
            /\ Rated(records[i])
            /\ \E t \in StatedPositive(records[i]) :
                   records[i].participantCount * 10000 < t

\* a flagged row whose count is below one positive candidate and not below
\* another
C7_Witness ==
    \E i \in Processed :
        /\ records[i].postId \in Flagged(low_outliers)
        /\ \E t, u \in StatedPositive(records[i]) :
               /\ records[i].participantCount * 10000 < t
               /\ records[i].participantCount * 10000 >= u

\* C8: every record of the audit whose explicit count differs from the
\* length of its id list is in the mismatch list, whatever its rating, the
\* star filter and the thresholds.
C8_MismatchAlwaysListed ==
    pc = "done" =>
        \A i \in 1..Len(records) :
            (/\ records[i].participantCount # None
             /\ records[i].participantIdsLength # None
             /\ records[i].participantCount
                    # records[i].participantIdsLength)
                => records[i].postId \in Flagged(mismatches)

\* C9: with a positive min_count every row that passes the star filter, is
\* ended and settled and has a count below min_count is a low outlier,
\* whatever its stratum's distribution and the other thresholds.
C9_AbsoluteFloor ==
    \A i \in Processed :
        (/\ args.min_count > 0
         /\ Rated(records[i])
         /\ records[i].participantCount < args.min_count)
            => records[i].postId \in Flagged(low_outliers)

\* a row below min_count is flagged although every other candidate of its
\* stratum is at or below its count
C9_Witness ==
    \E i \in Processed :
        /\ args.min_count > 0
        /\ Rated(records[i])
        /\ records[i].participantCount < args.min_count
        /\ records[i].postId \in Flagged(low_outliers)
        /\ \A t \in StatedCandidates(records[i]) \ {args.min_count * 10000} :
               t <= records[i].participantCount * 10000

StarKeys == {1, 2, 3, 4, 5, Unknown}

\* the records that belong to stratum s
Members(s) ==
    {i \in 1..Len(records) :
        /\ records[i].ended
        /\ records[i].settled
        /\ records[i].participantCount # None
        /\ records[i].stars = (IF s = Unknown THEN None ELSE s)}

Occurrences(seq, x) == Cardinality({j \in 1..Len(seq) : seq[j] = x})

\* C10: the sample of stratum s is exactly the multiset of the counts of the
\* ended, settled records with a known count and rating s; open, unsettled
\* and count-less records contribute to no stratum, and no absent count
\* becomes a number in a sample.
C10_StratumSample ==
    pc \in {"flag", "done", "crashed"} =>
        /\ DOMAIN per_star_counts = {s \in StarKeys : Members(s) # {}}
        /\ DOMAIN per_star_stats = DOMAIN per_star_counts
        /\ \A s \in DOMAIN per_star_counts :
               /\ Len(per_star_counts[s]) = Cardinality(Members(s))
               /\ per_star_stats[s].n = Cardinality(Members(s))
               /\ \A i \in Members(s) :
                      Occurrences(per_star_counts[s],
                                  records[i].participantCount)
                      = Cardinality({j \in Members(s) :
                            records[j].participantCount
                                = records[i].participantCount})

\* the stats are computed; an unsettled record with an id list, a settled
\* record without any count signal and a contributing record were read
C10_Witness ==
    /\ pc = "flag"
    /\ \E i \in 1..Len(records) :
           ~records[i].settled /\ records[i].participantCount # None
    /\ \E i \in 1..Len(records) :
           /\ records[i].ended
           /\ records[i].settled
           /\ records[i].participantCount = None
    /\ \E s \in DOMAIN per_star_counts : Len(per_star_counts[s]) >= 1

\* C5: the day bucket is not part of a record's identity: stats_by_user
\* retains each post id at most once and counts it at most once in the
\* user's entries.
C5_PostCountedOnce ==
    \A p \in Posts :
        /\ Cardinality({k \in DOMAIN entries_by_date : k[2] = p}) <= 1
        /\ Cardinality({i \in 1..Len(entered_rows) :
                            entered_rows[i].postId = p}) <= 1
        /\ entries_total <= Cardinality(PostsOf(offered))

----------------------------------------------------------------------------
(* Distribution statistics properties (SpecHelpers) *)

\* the i-th smallest value (i counted from 0) of a non-empty sample
OrderStat(values, i) ==
    CHOOSE x \in Range(values) :
        /\ Cardinality({j \in 1..Len(values) : values[j] < x}) <= i
        /\ i < Cardinality({j \in 1..Len(values) : values[j] <= x})

\* the stated percentile in hundredths: k = (n-1)*p/100, f = floor(k),
\* c = min(f+1, n-1), sample[f] + (sample[c] - sample[f]) * (k - f)
StatedPercentile(values, p) ==
    LET n == Len(values)
        k100 == (n - 1) * p
        f == k100 \div 100
        c == IF f + 1 <= n - 1 THEN f + 1 ELSE n - 1
    IN IF f = c THEN 100 * OrderStat(values, f)
       ELSE 100 * OrderStat(values, f)
            + (OrderStat(values, c) - OrderStat(values, f)) * (k100 - 100 * f)

\* the conventional median in hundredths: the middle value of an odd-sized
\* sample, the mean of the two middle values of an even-sized one
ConventionalMedian(values) ==
    LET n == Len(values)
    IN IF n % 2 = 1 THEN 100 * OrderStat(values, (n - 1) \div 2)
       ELSE 50 * (OrderStat(values, n \div 2 - 1)
                  + OrderStat(values, n \div 2))

\* C11: for a non-empty sample and 0 <= p <= 100, percentile(values, p) is
\* the linear interpolation between the order statistics around the rank
\* (n-1)*p/100; percentile(values, 50) is the conventional median for odd
\* and even n, and a one-element sample yields its element for every p.
C11_PercentileInterpolates ==
    pc = "sample" /\ sample # <<>> =>
        \A p \in DOMAIN quantiles :
            /\ quantiles[p] = StatedPercentile(sample, p)
            /\ p = 50 => quantiles[p] = ConventionalMedian(sample)
            /\ Len(sample) = 1 => quantiles[p] = 100 * sample[1]

\* an unsorted two-element sample whose 25th percentile and median are
\* interpolated between its two values
C11_Witness ==
    /\ pc = "sample"
    /\ Len(sample) = 2
    /\ sample[1] > sample[2]
    /\ {25, 50} \subseteq DOMAIN quantiles
    /\ 100 * sample[2] < quantiles[25]
    /\ quantiles[25] < quantiles[50]
    /\ quantiles[50] < 100 * sample[1]

\* C12: for a fixed non-empty sample percentile is non-decreasing in p, so
\* compute_stats has min <= p10 <= p25 <= median <= p75 <= p90 <= max and
\* iqr >= 0.
C12_PercentileMonotone ==
    pc = "sample" /\ sample # <<>> =>
        /\ \A p1, p2 \in DOMAIN quantiles :
               p1 <= p2 => quantiles[p1] <= quantiles[p2]
        /\ summary.by = "compute_stats" =>
               /\ 100 * summary.min <= summary.p10
               /\ summary.p10 <= summary.p25
               /\ summary.p25 <= summary.median
               /\ summary.median <= summary.p75
               /\ summary.p75 <= summary.p90
               /\ summary.p90 <= 100 * summary.max
               /\ summary.iqr >= 0

\* an unsorted three-element sample with a strictly increasing pair of
\* percentiles and a positive inter-quartile range
C12_Witness ==
    /\ pc = "sample"
    /\ Len(sample) = 3
    /\ sample[1] > sample[2]
    /\ {10, 90} \subseteq DOMAIN quantiles
    /\ quantiles[10] < quantiles[90]
    /\ summary.by = "compute_stats"
    /\ summary.iqr > 0

\* C13: for an empty sample every statistic a statistics routine returns is
\* the absent value, never the number 0, and percentile of an empty sample
\* is absent.
C13_EmptySampleHasNoData ==
    pc = "sample" /\ sample = <<>> =>
        /\ \A p \in DOMAIN quantiles : quantiles[p] = None
        /\ \A stat \in DOMAIN summary \ {"by", "n"} : summary[stat] = None

----------------------------------------------------------------------------
(* Field normaliser properties (SpecHelpers) *)

Called(helpers) == pc = "record" /\ extracted.helper \in helpers

\* the stated participant count: the explicit count when it coerces to an
\* integer, else the length of the id list when there is one, else absent
StatedCount(raffle) ==
    LET data == raffle.raffle
        explicit == IF IsDict(data) THEN int(data.participantCount)
                    ELSE Raises("TypeError")
    IN IF explicit.error = "none" THEN explicit.value
       ELSE IF IsDict(data) /\ data.participantIds.kind = "list"
            THEN Len(data.participantIds.items)
       ELSE None

\* C14: the normalised participant count is the explicit count when that is
\* coercible, even beside an id list of another length; the length of the
\* id list when the explicit count is absent or not coercible; and absent,
\* never 0, when there is neither.
C14_ExplicitCountPreferred ==
    Called({"verify.get_participant_info", "dash.get_participant_info",
            "user.get_participant_count"})
        /\ extracted.error = "none"
    => extracted.value[1] = StatedCount(record)

\* a winner id or name that is there and not empty once blanks, a leading
\* "/" and a leading "u/" are trimmed
StatedTrim(chars) ==
    LET s == Strip(chars)
        t == IF s # <<>> /\ s[1] = "/" THEN Tail(s) ELSE s
        u == IF Len(t) >= 2 /\ t[1] \in {"u", "U"} /\ t[2] = "/"
             THEN SubSeq(t, 3, Len(t)) ELSE t
    IN Strip(u)

StatedNonEmpty(v) ==
    IF v.kind = "str" THEN StatedTrim(v.chars) # <<>> ELSE Truthy(v)

\* the winner object when it carries an id or a name, else the record
StatedSettled(raffle) ==
    LET w == raffle.winner
        from == IF IsDict(w) /\ (w.winnerId # Null \/ w.winnerName # Null)
                THEN w ELSE raffle
    IN StatedNonEmpty(from.winnerId) \/ StatedNonEmpty(from.winnerName)

\* C15: a record is settled iff a winner id or name is present and
\* non-empty after trimming a leading "u/" or "/", read from the winner
\* object and, when the winner object carries neither, from the top-level
\* fields of the same names.
C15_SettledIffWinnerNamed ==
    Called({"verify.winner_present", "dash.winner_present"})
    => extracted.value = StatedSettled(record)

\* the stated rating: the nested field, the top-level one when the nested
\* is absent; the integer when it coerces into 1..5, otherwise unknown
StatedStar(raffle) ==
    LET data == raffle.raffle
        raw == IF IsDict(data) /\ data.stickerStars # Null
               THEN data.stickerStars ELSE raffle.stickerStars
        star == int(raw)
    IN IF star.error = "none" /\ star.value \in 1..5 THEN star.value
       ELSE None

\* C16: get_star returns the integer rating only when the coerced value is
\* in 1..5 and unknown otherwise, the nested field first and the top-level
\* field only when the nested one is absent.
C16_StarWithinOneToFive ==
    Called({"verify.get_star", "dash.get_star"}) /\ extracted.error = "none"
    => /\ extracted.value \in (1..5) \cup {None}
       /\ extracted.value = StatedStar(record)

\* the end time consulted: the nested field, else the top-level one
StatedEndTime(raffle) ==
    IF IsDict(raffle.raffle) /\ raffle.raffle.endTime # Null
    THEN raffle.raffle.endTime ELSE raffle.endTime

Ms1700000000000 == Num(FALSE, 1700000000, 0, 0)
Sec1700000000 == Num(FALSE, 1700000, 0, 0)

\* C17: to_epoch_sec takes a number >= 10^12 as milliseconds and divides it
\* by 1000 before truncating to whole seconds, truncates a smaller number
\* as seconds (1700000000000 and 1700000000 both give 1700000000), and
\* gives absent, never 0, for a missing, non-numeric or NaN value.
C17_EpochSeconds ==
    Called({"verify.get_end_time"}) =>
        LET raw == StatedEndTime(record)
            whole == 1000 * raw.kilo + raw.unit
        IN /\ raw.kind \in {"null", "nan", "list"}
              => extracted.error = "none" /\ extracted.value = None
           /\ raw.kind = "str" /\ ~IsDigits(raw.chars)
                 /\ raw.chars # <<"i", "n", "f">>
              => extracted.error = "none" /\ extracted.value = None
           /\ raw.kind = "num" /\ ~raw.neg /\ raw.kilo >= Kilo1e12
              => extracted.error = "none" /\ extracted.value = raw.kilo
           /\ raw.kind = "num" /\ ~raw.neg /\ raw.kilo < Kilo1e12
              => extracted.error = "none" /\ extracted.value = whole
           /\ raw.kind = "num" /\ raw.neg
              => extracted.error = "none" /\ extracted.value = 0 - whole
           /\ raw \in {Ms1700000000000, Sec1700000000}
              => extracted.value = 1700000000

\* both scales of the same instant, and NaN, have been normalised
C17_Witness ==
    /\ Called({"verify.get_end_time"})
    /\ \/ StatedEndTime(record) = Ms1700000000000
          /\ extracted.value = 1700000000
       \/ StatedEndTime(record) = Sec1700000000
          /\ extracted.value = 1700000000
          /\ record.endTime = Null

\* C18: a record is ended iff its normalised end timestamp is present and
\* at or before now, for every timestamp including 0 and negative ones;
\* verify_participant_counts, export_reverify_list and raffle_dash agree.
C18_EndedIffAtOrBeforeNow ==
    Called({"verify.ended", "dash.expired"}) /\ extracted.error = "none"
    => LET end_time == verify_get_end_time(record).value
       IN extracted.value = (end_time # None /\ end_time <= Now)

\* C19: no normaliser and no score_entry raises on a record that is a
\* mapping, whatever the types of its field values.
C19_ExtractionNeverRaises ==
    pc = "record" => extracted.error = "none"

----------------------------------------------------------------------------
(* Audit completion (Spec) *)

\* C20: the outlier pass never aborts; a record without a strictly
\* positive candidate threshold is simply not flagged.
C20_OutlierPassCompletes == pc # "crashed"

----------------------------------------------------------------------------
(* Report order (Spec) *)

\* ascending by (participant count, day key, post id)
StatedOutlierOrder(a, b) ==
    \/ a.participantCount < b.participantCount
    \/ /\ a.participantCount = b.participantCount
       /\ \/ a.dayKey < b.dayKey
          \/ a.dayKey = b.dayKey /\ a.postId < b.postId

\* ascending by (day key, post id)
StatedMismatchOrder(a, b) ==
    \/ a.dayKey < b.dayKey
    \/ a.dayKey = b.dayKey /\ a.postId < b.postId

\* C21: in the written report the low-outlier list is strictly ascending by
\* (participant count, group key, identifier) and the mismatch list by
\* (group key, identifier); post ids are unique in the record list, so each
\* list is the one arrangement of its set of flagged records.
C21_ReportOrder ==
    pc = "done" =>
        /\ \A i, j \in 1..Len(records) :
               i # j => records[i].postId # records[j].postId
        /\ \A i, j \in 1..Len(low_outliers) :
               i < j => StatedOutlierOrder(low_outliers[i], low_outliers[j])
        /\ \A i, j \in 1..Len(mismatches) :
               i < j => StatedMismatchOrder(mismatches[i], mismatches[j])

\* two outliers and two mismatches were flagged in scan order (post 1, then
\* post 2) and the report lists them the other way round: by count for the
\* outliers, by day key for the mismatches
C21_Witness ==
    /\ pc = "done"
    /\ Len(low_outliers) = 2
    /\ low_outliers[1].postId > low_outliers[2].postId
    /\ low_outliers[1].participantCount < low_outliers[2].participantCount
    /\ low_outliers[1].dayKey > low_outliers[2].dayKey
    /\ Len(mismatches) = 2
    /\ mismatches[1].postId > mismatches[2].postId
    /\ mismatches[1].dayKey < mismatches[2].dayKey

----------------------------------------------------------------------------
(* Frame of consider() (Spec) *)

\* C27: in a reconciliation pass of export_reverify_list the score of the
\* entry retained for an identifier never decreases from one step to the
\* next; consider() either stores the offered entry together with its day
\* key or leaves both maps unchanged, and it leaves the entry and the day
\* key of every other identifier unchanged.
C27_ConsiderFrame ==
    [][ pc = "reconcile" /\ offered' # offered =>
          LET o == offered'[Len(offered')]
          IN /\ DOMAIN entries_by_post' = DOMAIN day_keys_by_post'
             /\ DOMAIN entries_by_post' \subseteq
                    DOMAIN entries_by_post \cup {o.postId}
             /\ \A p \in DOMAIN entries_by_post :
                    /\ p \in DOMAIN entries_by_post'
                    /\ ~TupleGT(score_entry(entries_by_post[p]),
                                score_entry(entries_by_post'[p]))
                    /\ p # o.postId =>
                           /\ entries_by_post'[p] = entries_by_post[p]
                           /\ day_keys_by_post'[p] = day_keys_by_post[p]
             /\ \/ /\ o.postId \in DOMAIN entries_by_post'
                   /\ entries_by_post'[o.postId] = o.raffle
                   /\ day_keys_by_post'[o.postId] = o.dayKey
                \/ UNCHANGED <<entries_by_post, day_keys_by_post>>
      ]_vars

\* an entry was replaced by a higher-scoring one offered under another day
\* key while another identifier was already retained
C27_Witness ==
    \E p, q \in DOMAIN entries_by_post : \E i, j \in ExportOffers(p) :
        /\ p # q
        /\ i < j
        /\ TupleGT(Score(j), Score(i))
        /\ offered[i].dayKey # offered[j].dayKey
        /\ entries_by_post[p] = offered[j].raffle
        /\ day_keys_by_post[p] = offered[j].dayKey
        /\ \E h \in ExportOffers(q) : h < j

----------------------------------------------------------------------------
(* Completeness score and settlement (SpecHelpers) *)

\* C28: the winner component of score_entry is 1 iff winner_present holds
\* of the record; a record whose winner is stored only in the top-level
\* winnerId / winnerName fields scores 1 on the winner component.
C28_WinnerScoreIsSettled ==
    Called({"user.score_entry"}) /\ extracted.error = "none"
    => (extracted.value[1] = 1 <=> stats_winner_present(record))

----------------------------------------------------------------------------
(* Source files.                                                           *)
(*                                                                         *)
(* What json.load gives for a source file: kind is "unparsable" when it    *)
(* raises (the file cannot be read or is not JSON), "scalar" for a         *)
(* top-level value that is neither a mapping nor a list, "list" for a      *)
(* top-level list of items, "dict" for a mapping with one key              *)
(* "fmvTracker:raffles:<day>" whose value, the bucket, is a mapping        *)
(* ("dict"), a list ("list") or anything else ("scalar").  An item is      *)
(* stored in a mapping bucket under key; postId and postid are its fields  *)
(* of these names (None when absent), endTime what get_end_time returns    *)
(* of it and winner what winner_present returns of it.  No file has a      *)
(* "raffles" key or a raffle at top level, so extract_raffles takes        *)
(* neither of its two fallbacks.                                           *)

MaxFiles == 2

Item(key, postId, postid, endTime, winner) == [isDict |-> TRUE, key |-> key, postId |-> postId, postid |-> postid, endTime |-> endTime, winner |-> winner]

NotAnItem(key) == [isDict |-> FALSE, key |-> key, postId |-> None, postid |-> None, endTime |-> None, winner |-> FALSE]

Unparsable == [kind |-> "unparsable", bucket |-> "none", items |-> <<>>]
TopScalar == [kind |-> "scalar", bucket |-> "none", items |-> <<>>]
TopList(items) == [kind |-> "list", bucket |-> "none", items |-> items]
Snapshot(kind, items) == [kind |-> "dict", bucket |-> kind, items |-> items]

Won1 == Item(1, 1, None, 1, TRUE)
Lost2 == Item(2, 2, None, 1, FALSE)
Live1 == Item(1, 1, None, 3, FALSE)
Undated2 == Item(2, 2, None, None, TRUE)
Lower1 == Item(1, None, 1, 1, TRUE)
Lower2 == Item(2, None, 2, 3, FALSE)
Again1 == Item(3, 1, None, 1, FALSE)
Anonymous == Item(4, None, None, 1, TRUE)

SourceFiles ==
    { Unparsable, TopScalar, TopList(<<Won1, Lost2>>),
      Snapshot("scalar", <<>>), Snapshot("list", <<Won1>>),
      Snapshot("dict", <<Won1, Lost2>>),
      Snapshot("dict", <<Live1, Undated2>>),
      Snapshot("dict", <<Lower1, Lower2>>),
      Snapshot("dict", <<Won1, NotAnItem(2), Again1, Anonymous>>) }

SourceDirs == UNION { [1..n -> SourceFiles] : n \in 0..MaxFiles }

RECURSIVE add_all(_, _)
\* extract_raffles: add(item) for every item, in order
add_all(items, found) ==
    IF items = <<>> THEN found
    ELSE LET item == Head(items)
             post_id == IF item.postId # None THEN item.postId
                        ELSE item.postid
         IN add_all(Tail(items),
                IF ~item.isDict \/ post_id = None THEN found
                ELSE IF post_id \in found.seen
                     THEN [found EXCEPT !.dupes = @ + 1]
                ELSE [raffles |-> Append(found.raffles, item),
                      seen |-> found.seen \cup {post_id},
                      dupes |-> found.dupes])

extract_raffles(obj) ==
    LET none == [raffles |-> <<>>, seen |-> {}, dupes |-> 0]
    IN IF obj.kind = "list" THEN add_all(obj.items, none)
       ELSE IF obj.kind # "dict" THEN none
       ELSE IF obj.bucket \in {"dict", "list"} THEN add_all(obj.items, none)
       ELSE none

\* raffle_dash.compute_metrics: the counts of settlement and end time
compute_metrics(raffles) ==
    LET Count(P(_)) == Cardinality({i \in 1..Len(raffles) : P(raffles[i])})
        expired(r) == r.endTime # None /\ dash_expired(r.endTime)
        missing(r) == r.endTime = None
        active(r) == r.endTime # None /\ ~dash_expired(r.endTime)
        present(r) == r.winner
        presentExpired(r) == r.winner /\ expired(r)
        missingExpired(r) == ~r.winner /\ expired(r)
    IN [total |-> Len(raffles),
        expired |-> Count(expired),
        active |-> Count(active),
        missingEndTime |-> Count(missing),
        winnersPresent |-> Count(present),
        winnersPresentExpired |-> Count(presentExpired),
        winnersMissingExpired |-> Count(missingExpired)]

RECURSIVE merge_overall(_, _)
\* summarize_files: the loop that merges the raffles of a file into the
\* overall list; merged = [all_raffles, overall_seen, overall_dupes]
merge_overall(raffles, merged) ==
    IF raffles = <<>> THEN merged
    ELSE LET raffle == Head(raffles)
             post_id == raffle.postId
         IN merge_overall(Tail(raffles),
                IF post_id = None THEN merged
                ELSE IF post_id \in merged.overall_seen
                     THEN [merged EXCEPT !.overall_dupes = @ + 1]
                ELSE [all_raffles |-> Append(merged.all_raffles, raffle),
                      overall_seen |-> merged.overall_seen \cup {post_id},
                      overall_dupes |-> merged.overall_dupes])

NoMetrics == [total |-> None]

SummaryInit ==
    /\ pc = "summarize_files"
    /\ args = DefaultArgs
    /\ Blank
    /\ sample = <<>>
    /\ quantiles = <<>>
    /\ summary = NoSummary
    /\ record = NoRecord
    /\ extracted = NoResult
    /\ files \in SourceDirs
    /\ run = [file_i |-> 1, file_results |-> <<>>, errors |-> <<>>,
              all_raffles |-> <<>>, overall_seen |-> {},
              overall_dupes |-> 0, overall |-> NoMetrics]
    /\ bucket = <<>>
    /\ daily_stats = NoStats

\* raffle_dash.summarize_files: one iteration of the loop over the files
SummarizeFile ==
    /\ pc = "summarize_files"
    /\ run.file_i <= Len(files)
    /\ LET data == files[run.file_i]
           found == extract_raffles(data)
           metrics == compute_metrics(found.raffles)
                          @@ [file |-> run.file_i,
                              duplicatesInFile |-> found.dupes]
           merged == merge_overall(found.raffles,
                        [all_raffles |-> run.all_raffles,
                         overall_seen |-> run.overall_seen,
                         overall_dupes |-> run.overall_dupes])
       IN run' = IF data.kind = "unparsable"
                 THEN [run EXCEPT !.file_i = @ + 1,
                                  !.errors = Append(@, run.file_i)]
                 ELSE [run EXCEPT !.file_i = @ + 1,
                                  !.file_results = Append(@, metrics),
                                  !.all_raffles = merged.all_raffles,
                                  !.overall_seen = merged.overall_seen,
                                  !.overall_dupes = merged.overall_dupes]
    /\ UNCHANGED <<pc, args, offered, exportVars, userVars, auditVars,
                   sample, quantiles, summary, record, extracted,
                   files, bucket, daily_stats>>

\* raffle_dash.summarize_files: the overall metrics and the return
ReturnSummary ==
    /\ pc = "summarize_files"
    /\ run.file_i > Len(files)
    /\ run' = [run EXCEPT !.overall =
                  compute_metrics(run.all_raffles)
                      @@ [duplicatesAcrossFiles |-> run.overall_dupes]]
    /\ pc' = "summarized"
    /\ UNCHANGED <<args, offered, exportVars, userVars, auditVars,
                   sample, quantiles, summary, record, extracted,
                   files, bucket, daily_stats>>

\* iter_raffles_from_file of a file that json.load could read
iter_raffles_from_file(data) ==
    IF data.kind = "dict" /\ data.bucket = "dict"
    THEN SelectSeq(data.items, LAMBDA raffle : raffle.isDict)
    ELSE <<>>

LoopInit ==
    /\ pc = "source_loop"
    /\ args = DefaultArgs
    /\ Blank
    /\ sample = <<>>
    /\ quantiles = <<>>
    /\ summary = NoSummary
    /\ record = NoRecord
    /\ extracted = NoResult
    /\ files \in SourceDirs
    /\ run = [file_i |-> 1, yielded |-> <<>>]
    /\ bucket = <<>>
    /\ daily_stats = NoStats

\* verify_participant_counts, export_reverify_list, stats_by_user: one
\* iteration of the loop over the source files; load_json raises on a file
\* json.load cannot read and nothing catches it
ReadSource ==
    /\ pc = "source_loop"
    /\ run.file_i <= Len(files)
    /\ LET data == files[run.file_i]
       IN IF data.kind = "unparsable"
          THEN pc' = "aborted" /\ run' = run
          ELSE /\ pc' = pc
               /\ run' = [run EXCEPT !.file_i = @ + 1,
                              !.yielded = @ \o iter_raffles_from_file(data)]
    /\ UNCHANGED <<args, offered, exportVars, userVars, auditVars,
                   sample, quantiles, summary, record, extracted,
                   files, bucket, daily_stats>>

\* the report is written after the last source file
WriteSourceReport ==
    /\ pc = "source_loop"
    /\ run.file_i > Len(files)
    /\ pc' = "reported"
    /\ UNCHANGED <<args, offered, exportVars, userVars, auditVars,
                   sample, quantiles, summary, record, extracted, batchVars>>

SourcesInit == SummaryInit \/ LoopInit

SourcesNext ==
    \/ SummarizeFile
    \/ ReturnSummary
    \/ ReadSource
    \/ WriteSourceReport

SpecSources == SourcesInit /\ [][SourcesNext]_vars

----------------------------------------------------------------------------
(* Broken sources (SpecSources) *)

\* C26: a source that is structurally broken (a file that cannot be read
\* or parsed, a top-level value that is not a mapping, a bucket of the
\* wrong type) is skipped and the remaining sources are processed: no
\* broken source ends the run before its report.
C26_BrokenSourceSkipped == pc # "aborted"

----------------------------------------------------------------------------
(* Conservation of raffles in the summary (SpecSources) *)

RECURSIVE SumTotals(_)
SumTotals(results) ==
    IF results = <<>> THEN 0
    ELSE Head(results).total + SumTotals(Tail(results))

Balanced(counts) ==
    /\ counts.expired + counts.active + counts.missingEndTime = counts.total
    /\ counts.winnersPresentExpired + counts.winnersMissingExpired
           = counts.expired

\* C30: in the summary summarize_files returns, the overall total plus
\* duplicatesAcrossFiles equals the sum of the per-file totals, also when
\* raffles carry their identifier under "postid"; and in every metrics
\* result expired + active + missingEndTime = total and
\* winnersPresentExpired + winnersMissingExpired = expired.
C30_RafflesConserved ==
    pc = "summarized"
    => /\ run.overall.total + run.overall.duplicatesAcrossFiles
              = SumTotals(run.file_results)
       /\ Balanced(run.overall)
       /\ \A i \in 1..Len(run.file_results) : Balanced(run.file_results[i])

----------------------------------------------------------------------------
(* generate_daily_post.compute_stats: the 5-star fairness estimate.        *)
(*                                                                         *)
(* A person is a small integer; person p has the user id p and the user    *)
(* name p (ids and names are different strings of the program).  Of an     *)
(* entry, stars is what int(stickerStars) gives (None when it raises       *)
(* TypeError or ValueError), winnerName and winnerId what extract_winner   *)
(* returns, the name already stripped.  A bucket is given as a list of     *)
(* items, an item standing for `copies` entries of the same content        *)
(* stored under different post ids.                                        *)
(*                                                                         *)
(* lambda is kept exactly, in sixths (an entry has 1, 2 or 3 distinct      *)
(* participants).  Probabilities are in millionths: exp_neg is math.exp    *)
(* rounded to six decimals.  In double precision 1 - x is exactly 1.0 as   *)
(* soon as x <= 2^-54, which exp(-lam) * (1 + lam) is from lam = 248 / 6   *)
(* on: an expected count carries, next to its value in millionths, the     *)
(* number of its addends that are exactly 1.0.                             *)

MaxEntries == 3
Sixths == 6
Micro == 1000000
SaturatedFrom == 248
Opted == 3
Nobody == 0

excluded_ids == {Opted}
excluded_names == {Opted}

Entry(stars, isList, participantIds, winnerName, winnerId) == [isDict |-> TRUE, stars |-> stars, isList |-> isList, participantIds |-> participantIds, winnerName |-> winnerName, winnerId |-> winnerId]

NotAnEntry == [isDict |-> FALSE, stars |-> None, isList |-> FALSE, participantIds |-> <<>>, winnerName |-> None, winnerId |-> None]

Solo1 == Entry(5, TRUE, <<1>>, 1, 1)
Solo2 == Entry(5, TRUE, <<2>>, 2, 2)
Solo4 == Entry(5, TRUE, <<4>>, None, 4)
PairById == Entry(5, TRUE, <<1, 2>>, None, 1)
Repeated == Entry(5, TRUE, <<2, 1, 2>>, 2, None)
Unsettled == Entry(5, TRUE, <<2, 3>>, None, None)
Unclaimed == Entry(5, TRUE, <<1, 2, 4>>, Nobody, None)
FourStar == Entry(4, TRUE, <<1, 2>>, 1, 1)
NoList == Entry(5, FALSE, <<>>, 1, None)
OptedOnly == Entry(5, TRUE, <<3>>, None, 3)
Unrated == Entry(None, TRUE, <<1>>, 2, 2)

Times(copies, entry) == [entry |-> entry, copies |-> copies]

BucketItems ==
    { Times(1, e) : e \in { Solo1, Solo2, Solo4, PairById, Repeated,
                            Unsettled, Unclaimed, FourStar, NoList,
                            OptedOnly, Unrated, NotAnEntry } }
        \cup { Times(50, Solo1), Times(100, PairById) }

Buckets == UNION { [1..n -> BucketItems] : n \in 0..MaxEntries }

NoKey == [kind |-> "none", who |-> None]

normalize_winner(name, user_id) ==
    IF name # None
    THEN IF name = Nobody \/ name \in excluded_names THEN NoKey
         ELSE [kind |-> "name", who |-> name]
    ELSE IF user_id # None
    THEN IF user_id \in excluded_ids THEN NoKey
         ELSE [kind |-> "id", who |-> user_id]
    ELSE NoKey

\* Counter: counter[key] += n for every key of keys
AddTo(counter, keys, n) ==
    [k \in DOMAIN counter \cup keys |->
        (IF k \in DOMAIN counter THEN counter[k] ELSE 0)
            + (IF k \in keys THEN n ELSE 0)]

\* the list given without the excluded ids
filtered(participant_ids) ==
    SelectSeq(participant_ids, LAMBDA pid : pid \notin excluded_ids)

\* variant: the probability is split over the entries of the list
per_raffle_prob_of_list(filtered_ids) == Sixths \div Len(filtered_ids)

\* per_raffle_prob = 1 / len(filtered_unique)
per_raffle_prob(filtered_ids) == Sixths \div Cardinality(Range(filtered_ids))

\* one iteration of the loop over bucket.values(), taken item.copies times
tally(st, item) ==
    LET entry == item.entry
        stars == entry.stars
        filtered_ids == filtered(entry.participantIds)
        filtered_unique == Range(filtered_ids)
        counted == entry.isList /\ stars = 5 /\ filtered_unique # {}
        winner_key == normalize_winner(entry.winnerName, entry.winnerId)
    IN IF ~entry.isDict THEN st
       ELSE [raffle_counts_by_star |->
                 IF stars \in DOMAIN st.raffle_counts_by_star
                 THEN [st.raffle_counts_by_star
                           EXCEPT ![stars] = @ + item.copies]
                 ELSE st.raffle_counts_by_star,
             unique_participants |->
                 IF entry.isList
                 THEN st.unique_participants \cup filtered_unique
                 ELSE st.unique_participants,
             five_star_participant_entries |->
                 IF counted
                 THEN AddTo(st.five_star_participant_entries,
                            filtered_unique, item.copies)
                 ELSE st.five_star_participant_entries,
             five_star_lambda |->
                 IF counted
                 THEN AddTo(st.five_star_lambda, filtered_unique,
                            item.copies * per_raffle_prob(filtered_ids))
                 ELSE st.five_star_lambda,
             unique_winners |->
                 IF winner_key # NoKey
                 THEN st.unique_winners \cup {winner_key}
                 ELSE st.unique_winners,
             five_star_winner_counts |->
                 IF stars = 5 /\ winner_key # NoKey
                 THEN AddTo(st.five_star_winner_counts, {winner_key},
                            item.copies)
                 ELSE st.five_star_winner_counts]

ExpTable ==
    << 846482, 716531, 606531, 513417, 434598, 367879, 311403, 263597,
       223130, 188876, 159880, 135335, 114559, 96972, 82085, 69483,
       58816, 49787, 42144, 35674, 30197, 25562, 21637, 18316,
       15504, 13124, 11109, 9404, 7960, 6738, 5704, 4828,
       4087, 3459, 2928, 2479, 2098, 1776, 1503, 1273,
       1077, 912, 772, 653, 553, 468, 396, 335,
       284, 240, 203, 172, 146, 123, 104, 88,
       75, 63, 54, 45, 38, 33, 28, 23,
       20, 17, 14, 12, 10, 9, 7, 6,
       5, 4, 4, 3, 3, 2, 2, 2,
       1, 1, 1, 1, 1, 1, 1 >>

\* math.exp(-lam), lam in sixths, in millionths
exp_neg(lam) ==
    IF lam = 0 THEN Micro
    ELSE IF lam > Len(ExpTable) THEN 0
    ELSE ExpTable[lam]

\* variant: the probability of one win or more
one_win_or_more(lam) == Micro - exp_neg(lam)

\* 1 - math.exp(-lam) * (1 + lam), in millionths
double_win_term(lam) ==
    Micro - (exp_neg(lam) * (Sixths + lam) + Sixths \div 2) \div Sixths

\* whether that addend is exactly 1.0 in double precision
is_one(lam) == lam >= SaturatedFrom

RECURSIVE SumOver(_, _)
SumOver(f, S) ==
    IF S = {} THEN 0
    ELSE LET k == CHOOSE x \in S : TRUE
         IN f[k] + SumOver(f, S \ {k})

expected_double_winners(five_star_lambda) ==
    [micro |-> SumOver([p \in DOMAIN five_star_lambda |->
                           double_win_term(five_star_lambda[p])],
                       DOMAIN five_star_lambda),
     ones |-> Cardinality({p \in DOMAIN five_star_lambda :
                              is_one(five_star_lambda[p])})]

actual_double_winners(five_star_winner_counts) ==
    Cardinality({k \in DOMAIN five_star_winner_counts :
                    five_star_winner_counts[k] >= 2})

DailyInit ==
    /\ pc = "tally"
    /\ args = DefaultArgs
    /\ Blank
    /\ sample = <<>>
    /\ quantiles = <<>>
    /\ summary = NoSummary
    /\ record = NoRecord
    /\ extracted = NoResult
    /\ files = <<>>
    /\ run = NoRun
    /\ bucket \in Buckets
    /\ daily_stats = [by |-> "tally", i |-> 1,
                      raffle_counts_by_star |-> [star \in 1..5 |-> 0],
                      unique_participants |-> {},
                      unique_winners |-> {},
                      five_star_participant_entries |-> <<>>,
                      five_star_lambda |-> <<>>,
                      five_star_winner_counts |-> <<>>]

\* compute_stats: the loop over the entries of the bucket
TallyEntry ==
    /\ pc = "tally"
    /\ daily_stats.i <= Len(bucket)
    /\ daily_stats' = [by |-> "tally", i |-> daily_stats.i + 1]
                          @@ tally(daily_stats, bucket[daily_stats.i])
    /\ UNCHANGED <<pc, args, offered, exportVars, userVars, auditVars,
                   sample, quantiles, summary, record, extracted,
                   files, run, bucket>>

\* compute_stats: the estimate, the exact tally and the return
Estimate ==
    /\ pc = "tally"
    /\ daily_stats.i > Len(bucket)
    /\ daily_stats' =
           [by |-> "compute_stats",
            participants |-> Cardinality(daily_stats.unique_participants),
            winners |-> Cardinality(daily_stats.unique_winners),
            five_star_raffles |-> daily_stats.raffle_counts_by_star[5],
            five_star_participants |->
                Cardinality(DOMAIN daily_stats.five_star_participant_entries),
            expected_double_winners |->
                expected_double_winners(daily_stats.five_star_lambda),
            actual_double_winners |->
                actual_double_winners(daily_stats.five_star_winner_counts)]
               @@ daily_stats
    /\ pc' = "estimated"
    /\ UNCHANGED <<args, offered, exportVars, userVars, auditVars,
                   sample, quantiles, summary, record, extracted,
                   files, run, bucket>>

DailyNext == TallyEntry \/ Estimate

SpecDaily == DailyInit /\ [][DailyNext]_vars

----------------------------------------------------------------------------
(* Fairness estimate (SpecDaily) *)

People == {1, 2, 3, 4}

\* lambda of a participant, 0 when the participant has none
LambdaOf(p) ==
    IF p \in DOMAIN daily_stats.five_star_lambda
    THEN daily_stats.five_star_lambda[p]
    ELSE 0

TopRated(entry) == entry.isDict /\ entry.stars = 5

\* the distinct participants of an entry, excluded ids removed
Entrants(entry) ==
    IF entry.isList THEN Range(entry.participantIds) \ excluded_ids ELSE {}

\* the person who won the entry, None when nobody did
WinnerOf(entry) ==
    IF entry.winnerName \notin {None, Nobody} THEN entry.winnerName
    ELSE entry.winnerId

HasWinner(entry) == WinnerOf(entry) # None

\* sum of weight(item) over the first n items of the bucket
Weigh(weight(_), n) ==
    SumOver([i \in 1..n |-> weight(bucket[i])], 1..n)

StatedLambda(p) ==
    LET share(item) ==
            IF /\ TopRated(item.entry)
               /\ HasWinner(item.entry)
               /\ p \in Entrants(item.entry)
            THEN item.copies * (Sixths \div Cardinality(Entrants(item.entry)))
            ELSE 0
    IN Weigh(share, Len(bucket))

\* C22: the lambda of every participant is the sum, over exactly the
\* settled 5-star entries in which the participant appears, of
\* 1 / (number of distinct participants of the entry); an entry without a
\* winner contributes to no lambda.
C22_LambdaOverSettledRecords ==
    pc = "estimated" => \A p \in People : LambdaOf(p) = StatedLambda(p)

\* a bucket of 5-star entries with one entrant each, no entrant twice
SingleEntrantRecords ==
    /\ bucket # <<>>
    /\ \A i \in 1..Len(bucket) :
          /\ bucket[i].copies = 1
          /\ TopRated(bucket[i].entry)
          /\ bucket[i].entry.isList
          /\ Len(bucket[i].entry.participantIds) = 1
          /\ Entrants(bucket[i].entry) # {}
    /\ \A i, j \in 1..Len(bucket) :
          i # j => Entrants(bucket[i].entry) # Entrants(bucket[j].entry)

\* C23 as stated: for N 5-star entries of one entrant each and no entrant
\* in two of them, the expected double-winner count is approximately 0
\* (below 0.05, printed as 0.0).
C23_SingleEntrantsExpectZero ==
    pc = "estimated" /\ SingleEntrantRecords
    => daily_stats.expected_double_winners.micro < Micro \div 20

\* C23 amended: for N such entries every entrant has lambda = 1 and the
\* expected double-winner count is N * (1 - 2 / e), about 0.264 * N.
C23_SingleEntrantsExpectQuarter ==
    pc = "estimated" /\ SingleEntrantRecords
    => LET N == Len(bucket)
           expected == daily_stats.expected_double_winners.micro
       IN /\ \A p \in DOMAIN daily_stats.five_star_lambda :
                 LambdaOf(p) = Sixths
          /\ expected >= N * 264241 - N
          /\ expected <= N * 264241 + N

\* three single-entrant 5-star entries of three different entrants
C23_Witness ==
    pc = "estimated" /\ SingleEntrantRecords /\ Len(bucket) = 3

StatedTerm(lam) ==
    Micro - (exp_neg(lam) * (Sixths + lam) + Sixths \div 2) \div Sixths

StatedExpected ==
    SumOver([p \in People |-> IF LambdaOf(p) = 0 THEN 0
                              ELSE StatedTerm(LambdaOf(p))], People)

\* C24 as stated: the expected count is the sum over the 5-star
\* participants of 1 - e^(-lambda) * (1 + lambda); every term is in
\* [0, 1), so the count is non-negative and strictly below the number of
\* participants, and it is 0 when there is none.
C24_ExpectedBelowParticipants ==
    pc = "estimated"
    => LET expected == daily_stats.expected_double_winners
           n == daily_stats.five_star_participants
       IN /\ expected.micro = StatedExpected
          /\ \A p \in DOMAIN daily_stats.five_star_lambda :
                 /\ double_win_term(LambdaOf(p)) >= 0
                 /\ ~is_one(LambdaOf(p))
          /\ expected.micro >= 0
          /\ n > 0 => expected.ones < n
          /\ n = 0 => expected.micro = 0

\* C24 amended: the expected count is that sum; every term is in [0, 1]
\* (exactly 1.0 in double precision once lambda is about 41.4 or more), so
\* the count is non-negative and at most the number of participants, and
\* it is 0 when there is none.
C24_ExpectedAtMostParticipants ==
    pc = "estimated"
    => LET expected == daily_stats.expected_double_winners
           n == daily_stats.five_star_participants
       IN /\ expected.micro = StatedExpected
          /\ \A p \in DOMAIN daily_stats.five_star_lambda :
                 /\ double_win_term(LambdaOf(p)) >= 0
                 /\ double_win_term(LambdaOf(p)) <= Micro
          /\ expected.micro >= 0
          /\ expected.micro <= n * Micro
          /\ expected.ones <= n
          /\ n = 0 => expected.micro = 0 /\ expected.ones = 0

\* two participants, the term of one is exactly 1.0 and the term of the
\* other is not
C24_Witness ==
    /\ pc = "estimated"
    /\ daily_stats.five_star_participants = 2
    /\ daily_stats.expected_double_winners.ones = 1
    /\ daily_stats.expected_double_winners.micro > Micro

\* number of 5-star entries of the bucket the person won
Wins(p) ==
    LET won(item) ==
            IF TopRated(item.entry) /\ WinnerOf(item.entry) = p
            THEN item.copies ELSE 0
    IN Weigh(won, Len(bucket))

\* C25: the actual double-winner count is the number of distinct persons
\* who won two or more 5-star entries of the bucket, each counted once,
\* also when one entry carries the winner's name and another only the
\* winner's id.
C25_ActualCountsPersons ==
    pc = "estimated"
    => daily_stats.actual_double_winners
           = Cardinality({p \in People \ {Opted} : Wins(p) >= 2})

\* number of 5-star entries, among the first n, that have a participant
\* left once the excluded ids are removed
Distributing(n) ==
    LET one(item) ==
            IF TopRated(item.entry) /\ Entrants(item.entry) # {}
            THEN item.copies ELSE 0
    IN Weigh(one, n)

\* C29: the lambdas add up to the number of 5-star entries that have a
\* non-empty participant list once the excluded ids are removed (each
\* distributes probability 1 among its distinct participants), and no
\* excluded id has a lambda; this holds after every entry tallied.
C29_ProbabilityConserved ==
    pc \in {"tally", "estimated"}
    => /\ SumOver(daily_stats.five_star_lambda,
                  DOMAIN daily_stats.five_star_lambda)
              = Sixths * Distributing(daily_stats.i - 1)
       /\ DOMAIN daily_stats.five_star_lambda \cap excluded_ids = {}

\* a 5-star entry lists an excluded id next to another participant, and
\* another lists a participant twice
C29_Witness ==
    /\ pc = "estimated"
    /\ \E i, j \in 1..Len(bucket) :
          /\ TopRated(bucket[i].entry)
          /\ Range(bucket[i].entry.participantIds) \cap excluded_ids # {}
          /\ Entrants(bucket[i].entry) # {}
          /\ TopRated(bucket[j].entry)
          /\ Len(bucket[j].entry.participantIds)
                 > Cardinality(Range(bucket[j].entry.participantIds))

====
